---------------------------- MODULE Spec2Model ----------------------------
(***************************************************************************)
(* Model of the lingo-cat message dispatch core: the deduplication         *)
(* middleware, the eligibility filter, the Slack message / app_mention     *)
(* handlers, the parallel fan-out and the retry wrapper.                   *)
(*                                                                         *)
(* Texts, channel ids, timestamps and usernames are sequences of           *)
(* one-character strings, so that trim, toLowerCase, includes and the      *)
(* template string `${channelId}:${messageTs}` are computed, not assumed.  *)
(* Time is Date.now() in milliseconds.                                     *)
(*                                                                         *)
(* DeduplicationCache.clear() ("for testing") has no caller in the         *)
(* program and is not an action of any specification below.                *)
(***************************************************************************)
EXTENDS Integers, Sequences, FiniteSets, TLC

VARIABLES
    now,          \* Date.now(), ms
    cache,        \* DeduplicationCache.cache : key -> CacheEntry (a Map)
    marked,       \* history: key -> time the code last went to mark key, -1 if never
    lastCall,     \* history: the latest direct call on the middleware and its result
    targetLangs,  \* envConfig.targetLangs
    runs,         \* the handler invocations (one async function call each)
    batch,        \* translate.ts translateToMultiple / translateToWithRetry in flight
    format,       \* the latest call of a reply formatter and what it returned
    store         \* MemoryStorageAdapter.store (a Map), and history: the latest call

vars == <<now, cache, marked, lastCall, targetLangs, runs, batch, format, store>>

(***************************************************************************)
(* Bounds of the model.                                                    *)
(***************************************************************************)
MaxTicks == 2     \* number of clock advances
MaxRuns == 2      \* number of handler invocations
MaxParts == 2     \* number of parts a formatted reply is split into
MaxTextLen == 5   \* length of a text given to splitLongMessage
MaxLength == 3    \* largest maxLength given to splitLongMessage
MaxResults == 2   \* number of outcomes given to formatTranslationResults

(***************************************************************************)
(* JavaScript values.                                                      *)
(***************************************************************************)
\* undefined, for the fields the code only tests and compares (bot_id, app_id,
\* subtype, reason), and for the fields it reads as text (text, username)
NoValue == "undefined"
NoText == <<"<undefined>">>

\* truthiness of a string: neither undefined nor empty
Truthy(v) == v /= NoValue /\ v /= ""
TruthyText(s) == s /= NoText /\ s /= <<>>

WhiteSpace == {" ", "\n"}

\* code points of the emoji ranges of the filter's pattern: <grin> is U+1F600
\* (two UTF-16 units), <sun> is U+2600 (one unit)
EmojiChars == {"<grin>", "<sun>"}

CharUnits(c) == IF c = "<grin>" THEN 2 ELSE 1

RECURSIVE Length(_)
\* String.prototype.length: UTF-16 code units
Length(s) == IF s = <<>> THEN 0 ELSE CharUnits(Head(s)) + Length(Tail(s))

RECURSIVE TrimStart(_)
TrimStart(s) ==
    IF s /= <<>> /\ Head(s) \in WhiteSpace THEN TrimStart(Tail(s)) ELSE s

RECURSIVE TrimEnd(_)
TrimEnd(s) ==
    IF s /= <<>> /\ s[Len(s)] \in WhiteSpace
    THEN TrimEnd(SubSeq(s, 1, Len(s) - 1))
    ELSE s

\* String.prototype.trim
Trim(s) == TrimEnd(TrimStart(s))

UpperToLower ==
    [c \in {"I", "G", "N", "O", "R", "E", "B", "T"} |->
        CASE c = "I" -> "i" [] c = "G" -> "g" [] c = "N" -> "n" [] c = "O" -> "o"
          [] c = "R" -> "r" [] c = "E" -> "e" [] c = "B" -> "b" [] c = "T" -> "t"]

\* String.prototype.toLowerCase
ToLowerCase(s) ==
    [i \in 1..Len(s) |-> IF s[i] \in DOMAIN UpperToLower THEN UpperToLower[s[i]] ELSE s[i]]

\* String.prototype.includes
Includes(s, sub) ==
    \E i \in 0..(Len(s) - Len(sub)) : SubSeq(s, i + 1, i + Len(sub)) = sub

RECURSIVE Split(_, _)
\* String.prototype.split with a one-character separator
Split(s, sep) ==
    IF \E i \in 1..Len(s) : s[i] = sep
    THEN LET i == CHOOSE j \in 1..Len(s) :
                      s[j] = sep /\ \A k \in 1..(j - 1) : s[k] /= sep
         IN  <<SubSeq(s, 1, i - 1)>> \o Split(SubSeq(s, i + 1, Len(s)), sep)
    ELSE <<s>>

RECURSIVE Join(_, _)
\* Array.prototype.join
Join(parts, sep) ==
    IF parts = <<>> THEN <<>>
    ELSE IF Len(parts) = 1 THEN parts[1]
    ELSE parts[1] \o sep \o Join(Tail(parts), sep)

(***************************************************************************)
(* DeduplicationCache (middlewares/deduplication).                         *)
(***************************************************************************)
TTL_MS == 10 * 60 * 1000

generateKey(channelId, messageTs) == channelId \o <<":">> \o messageTs

cleanExpired_KeepsAll(c, t) == c

cleanExpired(c, t) ==
    [k \in {k \in DOMAIN c : ~(t - c[k].timestamp > TTL_MS)} |-> c[k]]

isProcessed_NoLookup(c, channelId, messageTs, t) == FALSE

\* the value isProcessed returns; its side effect on the map is cleanExpired
isProcessed(c, channelId, messageTs, t) ==
    LET swept == cleanExpired(c, t)
        key == generateKey(channelId, messageTs)
    IN  IF key \in DOMAIN swept THEN swept[key].processed ELSE FALSE

markProcessed_Pending(c, channelId, messageTs, t) ==
    LET key == generateKey(channelId, messageTs)
    IN  [k \in DOMAIN c \cup {key} |->
            IF k = key THEN [timestamp |-> t, processed |-> FALSE] ELSE c[k]]

markProcessed(c, channelId, messageTs, t) ==
    LET key == generateKey(channelId, messageTs)
    IN  [k \in DOMAIN c \cup {key} |->
            IF k = key THEN [timestamp |-> t, processed |-> TRUE] ELSE c[k]]

(***************************************************************************)
(* The eligibility filter.                                                 *)
(***************************************************************************)
ReasonBot == "Bot message or system message"
ReasonProcessed == "Already processed"
ReasonEmpty == "Empty or whitespace-only message"
ReasonEmoji == "Emoji-only message"
ReasonIgnore == "Ignore command detected"
ReasonShort == "Message too short for translation"

shouldIgnoreForBotLoop_UsernameOnly(message) ==
    TruthyText(message.username)
      /\ Includes(ToLowerCase(message.username), <<"b", "o", "t">>)

shouldIgnoreForBotLoop(message) ==
    IF Truthy(message.bot_id) \/ message.subtype = "bot_message" THEN TRUE
    ELSE IF Truthy(message.app_id) THEN TRUE
    ELSE IF Truthy(message.subtype) /\ message.subtype /= "message_changed" THEN TRUE
    ELSE IF TruthyText(message.username)
            /\ Includes(ToLowerCase(message.username), <<"b", "o", "t">>) THEN TRUE
    ELSE FALSE

\* /^[\s<emoji ranges>]*$/u
emojiOnlyPattern(text) ==
    \A i \in 1..Len(text) : text[i] \in WhiteSpace \cup EmojiChars

Verdict(ok, reason, message) ==
    [shouldProcess |-> ok, reason |-> reason,
     channelId |-> message.channel, messageTs |-> message.ts]

shouldProcessMessage_EmptyBeforeDedup(message, c, t) ==
    IF shouldIgnoreForBotLoop(message) THEN Verdict(FALSE, ReasonBot, message)
    ELSE IF ~TruthyText(message.text) \/ Length(Trim(message.text)) = 0
        THEN Verdict(FALSE, ReasonEmpty, message)
    ELSE IF isProcessed(c, message.channel, message.ts, t)
        THEN Verdict(FALSE, ReasonProcessed, message)
    ELSE IF emojiOnlyPattern(message.text) THEN Verdict(FALSE, ReasonEmoji, message)
    ELSE IF Includes(ToLowerCase(message.text), <<"/", "i", "g", "n", "o", "r", "e">>)
            \/ Includes(ToLowerCase(message.text), <<"!", "i", "g", "n", "o", "r", "e">>)
        THEN Verdict(FALSE, ReasonIgnore, message)
    ELSE IF Length(Trim(message.text)) < 3 THEN Verdict(FALSE, ReasonShort, message)
    ELSE Verdict(TRUE, NoValue, message)

shouldProcessMessage_NoDedup(message, c, t) ==
    IF shouldIgnoreForBotLoop(message) THEN Verdict(FALSE, ReasonBot, message)
    ELSE IF ~TruthyText(message.text) \/ Length(Trim(message.text)) = 0
        THEN Verdict(FALSE, ReasonEmpty, message)
    ELSE IF emojiOnlyPattern(message.text) THEN Verdict(FALSE, ReasonEmoji, message)
    ELSE IF Includes(ToLowerCase(message.text), <<"/", "i", "g", "n", "o", "r", "e">>)
            \/ Includes(ToLowerCase(message.text), <<"!", "i", "g", "n", "o", "r", "e">>)
        THEN Verdict(FALSE, ReasonIgnore, message)
    ELSE IF Length(Trim(message.text)) < 3 THEN Verdict(FALSE, ReasonShort, message)
    ELSE Verdict(TRUE, NoValue, message)

\* utils/text shouldIgnoreMessage, the earlier draft of the filter
shouldIgnoreMessage(message) ==
    IF Truthy(message.bot_id) \/ message.subtype = "bot_message" THEN TRUE
    ELSE IF Truthy(message.subtype) /\ message.subtype /= "message_changed" THEN TRUE
    ELSE IF ~TruthyText(message.text) \/ Length(Trim(message.text)) = 0 THEN TRUE
    ELSE IF emojiOnlyPattern(message.text) THEN TRUE
    ELSE IF Includes(ToLowerCase(message.text), <<"/", "i", "g", "n", "o", "r", "e">>)
        THEN TRUE
    ELSE FALSE

shouldProcessMessage_NoIgnoreCommand(message, c, t) ==
    IF shouldIgnoreForBotLoop(message) THEN Verdict(FALSE, ReasonBot, message)
    ELSE IF isProcessed(c, message.channel, message.ts, t)
        THEN Verdict(FALSE, ReasonProcessed, message)
    ELSE IF ~TruthyText(message.text) \/ Length(Trim(message.text)) = 0
        THEN Verdict(FALSE, ReasonEmpty, message)
    ELSE IF emojiOnlyPattern(message.text) THEN Verdict(FALSE, ReasonEmoji, message)
    ELSE IF Length(Trim(message.text)) < 3 THEN Verdict(FALSE, ReasonShort, message)
    ELSE Verdict(TRUE, NoValue, message)

\* the value shouldProcessMessage returns, against the map c at time t
shouldProcessMessage(message, c, t) ==
    IF shouldIgnoreForBotLoop(message) THEN Verdict(FALSE, ReasonBot, message)
    ELSE IF isProcessed(c, message.channel, message.ts, t)
        THEN Verdict(FALSE, ReasonProcessed, message)
    ELSE IF ~TruthyText(message.text) \/ Length(Trim(message.text)) = 0
        THEN Verdict(FALSE, ReasonEmpty, message)
    ELSE IF emojiOnlyPattern(message.text) THEN Verdict(FALSE, ReasonEmoji, message)
    ELSE IF Includes(ToLowerCase(message.text), <<"/", "i", "g", "n", "o", "r", "e">>)
            \/ Includes(ToLowerCase(message.text), <<"!", "i", "g", "n", "o", "r", "e">>)
        THEN Verdict(FALSE, ReasonIgnore, message)
    ELSE IF Length(Trim(message.text)) < 3 THEN Verdict(FALSE, ReasonShort, message)
    ELSE Verdict(TRUE, NoValue, message)

cacheAfterFilter_Marks(message, c, t) ==
    markProcessed(cleanExpired(c, t), message.channel, message.ts, t)

\* the map after shouldProcessMessage: isProcessed (and its sweep) runs only when
\* the bot-loop check did not return first
cacheAfterFilter(message, c, t) ==
    IF shouldIgnoreForBotLoop(message) THEN c ELSE cleanExpired(c, t)

(***************************************************************************)
(* Inputs: Slack events.                                                   *)
(***************************************************************************)
Channels == {<<"C", "1">>, <<"C", "2">>}
Stamps == {<<"1", ".", "0">>}
\* the ts Slack gives a reply the bot posted
EchoStamp == <<"2", ".", "0">>
Keys == {generateKey(ch, ts) : ch \in Channels, ts \in Stamps \cup {EchoStamp}}

SampleTexts ==
    { NoText,
      <<>>,
      <<" ", "\n">>,
      <<"<grin>">>,
      <<" ", "<sun>", "<grin>">>,
      <<"h", "i">>,
      <<" ", "h", "i", " ">>,
      <<"h", "e", "y">>,
      <<"a", "<grin>">>,
      <<"/", "i", "g", "n", "o", "r", "e">>,
      <<"o", "k", " ", "!", "I", "G", "N", "O", "R", "E">>,
      <<"h", "e", "l", "l", "o", " ", "t", "e", "a", "m">> }

Message(ch, ts, botId, appId, subtype, username, text) ==
    [channel |-> ch, ts |-> ts, bot_id |-> botId, app_id |-> appId,
     subtype |-> subtype, username |-> username, text |-> text]

\* the sender shapes the bot-loop check distinguishes: bot_id, app_id, subtype, username
SenderShapes ==
    { <<NoValue, NoValue, NoValue, NoText>>,
      <<"B1", NoValue, NoValue, NoText>>,
      <<NoValue, NoValue, "bot_message", NoText>>,
      <<NoValue, "A1", NoValue, NoText>>,
      <<NoValue, NoValue, "channel_join", NoText>>,
      <<NoValue, NoValue, "message_changed", NoText>>,
      <<NoValue, NoValue, NoValue, <<"a", "n", "n">> >>,
      <<NoValue, NoValue, NoValue, <<"R", "o", "B", "O", "T", "1">> >> }

\* the texts paired with a sender the bot-loop check rejects
BotTexts == { NoText, <<>>, <<"h", "e", "l", "l", "o", " ", "t", "e", "a", "m">> }

\* the message events delivered to the filter
Messages ==
    { Message(ch, ts, s[1], s[2], s[3], s[4], tx) :
        ch \in Channels, ts \in Stamps, s \in SenderShapes, tx \in SampleTexts }

NoMessage == Message(<<>>, <<>>, NoValue, NoValue, NoValue, NoText, NoText)

(***************************************************************************)
(* The clock.                                                              *)
(***************************************************************************)
\* Date.now() advances by 1 ms or by a whole TTL, at most MaxTicks times
Tick ==
    /\ \E d \in {1, TTL_MS} :
        /\ (now % TTL_MS) + (now \div TTL_MS) < MaxTicks
        /\ now' = now + d
    /\ UNCHANGED <<cache, marked, lastCall, targetLangs, runs, batch, format, store>>

Elapsed(key) == IF marked[key] < 0 THEN -1 ELSE now - marked[key]

\* the latest mark of key is not older than the TTL
Live(key) == Elapsed(key) >= 0 /\ Elapsed(key) <= TTL_MS

(***************************************************************************)
(* MemoryStorageAdapter (packages/storage-adapter). The Map holds, for a    *)
(* key, the value and the expiry time (0 for none).                        *)
(***************************************************************************)
NoItems == [k \in {} |-> 0]

\* get: the value, or null; an entry found expired is deleted
get(items, key, t) ==
    IF key \notin DOMAIN items THEN [isNull |-> TRUE, value |-> "", items |-> items]
    ELSE IF items[key].expires /= 0 /\ t > items[key].expires
    THEN [isNull |-> TRUE, value |-> "",
          items |-> [k \in DOMAIN items \ {key} |-> items[k]]]
    ELSE [isNull |-> FALSE, value |-> items[key].value, items |-> items]

\* set: ttlSeconds 0 stands for an omitted (or zero) ttl
set(items, key, value, ttlSeconds, t) ==
    [k \in DOMAIN items \cup {key} |->
        IF k = key
        THEN [value |-> value,
              expires |-> IF ttlSeconds /= 0 THEN t + ttlSeconds * 1000 ELSE 0]
        ELSE items[k]]

delete(items, key) == [k \in DOMAIN items \ {key} |-> items[k]]

exists(items, key) == key \in DOMAIN items

NoStore == [items |-> NoItems, op |-> "none", key |-> "", isNull |-> TRUE, found |-> FALSE]

StorageKeys == {"k1", "k2"}
StorageValues == {"v", ""}
\* ttlSeconds given to set: omitted, one second, twenty minutes
StorageTtls == {0, 1, 1200}

CallSet(key, value, ttlSeconds) ==
    /\ store' = [NoStore EXCEPT !.items = set(store.items, key, value, ttlSeconds, now),
                               !.op = "set", !.key = key]
    /\ UNCHANGED <<now, cache, marked, lastCall, targetLangs, runs, batch, format>>

CallGet(key) ==
    /\ store' = [NoStore EXCEPT !.items = get(store.items, key, now).items,
                               !.op = "get", !.key = key,
                               !.isNull = get(store.items, key, now).isNull]
    /\ UNCHANGED <<now, cache, marked, lastCall, targetLangs, runs, batch, format>>

CallDelete(key) ==
    /\ store' = [NoStore EXCEPT !.items = delete(store.items, key),
                               !.op = "delete", !.key = key]
    /\ UNCHANGED <<now, cache, marked, lastCall, targetLangs, runs, batch, format>>

CallExists(key) ==
    /\ store' = [NoStore EXCEPT !.items = store.items,
                               !.op = "exists", !.key = key,
                               !.found = exists(store.items, key),
                               !.isNull = get(store.items, key, now).isNull]
    /\ UNCHANGED <<now, cache, marked, lastCall, targetLangs, runs, batch, format>>

(***************************************************************************)
(* DedupSpec: the middleware called directly, as its unit tests and the    *)
(* health endpoint do.                                                     *)
(***************************************************************************)
NoCall ==
    [op |-> "none", message |-> NoMessage, result |-> FALSE, reason |-> NoValue,
     processed |-> FALSE, elapsed |-> -1, size |-> 0, oldestEntry |-> -1]

CallMarkProcessed(ch, ts) ==
    /\ cache' = markProcessed(cache, ch, ts, now)
    /\ marked' = [marked EXCEPT ![generateKey(ch, ts)] = now]
    /\ lastCall' = [NoCall EXCEPT !.op = "markProcessed",
                        !.message = [NoMessage EXCEPT !.channel = ch, !.ts = ts]]
    /\ UNCHANGED <<now, targetLangs, runs, batch, format, store>>

CallIsProcessed(ch, ts) ==
    /\ cache' = cleanExpired(cache, now)
    /\ lastCall' = [NoCall EXCEPT !.op = "isProcessed",
                        !.message = [NoMessage EXCEPT !.channel = ch, !.ts = ts],
                        !.result = isProcessed(cache, ch, ts, now),
                        !.elapsed = Elapsed(generateKey(ch, ts))]
    /\ UNCHANGED <<now, marked, targetLangs, runs, batch, format, store>>

CallShouldProcessMessage(m) ==
    LET v == shouldProcessMessage(m, cache, now)
    IN  /\ cache' = cacheAfterFilter(m, cache, now)
        /\ lastCall' = [NoCall EXCEPT !.op = "shouldProcessMessage",
                            !.message = m,
                            !.result = v.shouldProcess,
                            !.reason = v.reason,
                            !.processed = isProcessed(cache, m.channel, m.ts, now)]
        /\ UNCHANGED <<now, marked, targetLangs, runs, batch, format, store>>

Oldest(c) ==
    IF DOMAIN c = {} THEN -1
    ELSE CHOOSE t \in {c[k].timestamp : k \in DOMAIN c} :
            \A k \in DOMAIN c : t <= c[k].timestamp

\* getStats: sweeps, then reports the size and the oldest timestamp (null as -1)
getStats(c, t) ==
    [size |-> Cardinality(DOMAIN cleanExpired(c, t)),
     oldestEntry |-> Oldest(cleanExpired(c, t))]

CallGetStats ==
    /\ cache' = cleanExpired(cache, now)
    /\ lastCall' = [NoCall EXCEPT !.op = "getStats",
                        !.size = getStats(cache, now).size,
                        !.oldestEntry = getStats(cache, now).oldestEntry]
    /\ UNCHANGED <<now, marked, targetLangs, runs, batch, format, store>>

NoRuns == [r \in {} |-> 0]
NoBatch == [phase |-> "none"]
NoFormat == [op |-> "none"]

DedupInit ==
    /\ now = 0
    /\ cache = [k \in {} |-> 0]
    /\ marked = [k \in Keys |-> -1]
    /\ lastCall = NoCall
    /\ targetLangs = <<>>
    /\ runs = NoRuns
    /\ batch = NoBatch
    /\ format = NoFormat
    /\ store = NoStore

DedupNext ==
    \/ Tick
    \/ \E ch \in Channels, ts \in Stamps : CallMarkProcessed(ch, ts)
    \/ \E ch \in Channels, ts \in Stamps : CallIsProcessed(ch, ts)
    \/ \E m \in Messages :
        /\ shouldIgnoreForBotLoop(m) => m.text \in BotTexts
        /\ CallShouldProcessMessage(m)
    \/ CallGetStats

DedupSpec == DedupInit /\ [][DedupNext]_vars

(***************************************************************************)
(* StorageSpec: the storage adapter called directly while the clock runs.  *)
(***************************************************************************)
StorageNext ==
    \/ Tick
    \/ \E key \in StorageKeys, value \in StorageValues, ttlSeconds \in StorageTtls :
          CallSet(key, value, ttlSeconds)
    \/ \E key \in StorageKeys : CallGet(key)
    \/ \E key \in StorageKeys : CallDelete(key)
    \/ \E key \in StorageKeys : CallExists(key)

StorageSpec == DedupInit /\ [][StorageNext]_vars

(***************************************************************************)
(* Translation (translator/translate, translator/langchain-service).       *)
(***************************************************************************)
\* the languages detectLanguage is made to answer ('und' is the sentinel)
DetectLangs == {"en", "ko", "ja", "und"}

TargetConfigs == { <<"ko", "ja">>, <<"en", "ko", "ja">>, <<"en">> }

filterTargetLanguages_Identity(langs, sourceLang) == langs

filterTargetLanguages(langs, sourceLang) ==
    SelectSeq(langs, LAMBDA lang : lang /= sourceLang)

\* the target list both handlers dispatch
dispatchTargets(configured, sourceLang) ==
    IF sourceLang = "ko" THEN <<"en", "ja">>
    ELSE IF sourceLang = "ja" THEN <<"ko", "en">>
    ELSE filterTargetLanguages(configured, sourceLang)

TranslationResult(lang, text, ok, err) ==
    [targetLanguage |-> lang, translatedText |-> text, success |-> ok, error |-> err]

\* what one call of the generation model does: it throws, or returns a content
Threw(msg) == [threw |-> TRUE, content |-> NoText, message |-> msg]
Returned(content) == [threw |-> FALSE, content |-> content, message |-> NoValue]

\* the call rejects with undefined instead of an Error object
ThrewNothing == [threw |-> TRUE, content |-> NoText, message |-> NoValue]

\* the TypeError of reading .message of undefined
NoMessageError == "Cannot read properties of undefined (reading 'message')"

Translation(lang) == <<lang, ":", "o", "k">>

\* the model's behaviours for one call: a translation (with stray whitespace), an
\* empty content, no content, an echo of the input, an exception
ReplyKinds == {"translation", "empty", "none", "echo", "throw"}

\* the behaviours that are an exception
HardKinds == {"throw", "timeout"}

ModelReply(kind, text, lang) ==
    CASE kind = "translation" -> Returned(<<" ">> \o Translation(lang) \o <<"\n">>)
      [] kind = "empty" -> Returned(<<>>)
      [] kind = "none" -> Returned(NoText)
      [] kind = "echo" -> Returned(text)
      [] kind = "throw" -> Threw("503 Service Unavailable")
      [] kind = "timeout" -> Threw("Translation timeout")
      [] kind = "nothing" -> ThrewNothing

\* LangChainTranslationService.translateText, given what model.invoke did
translateText(text, targetLang, reply) ==
    IF reply.threw THEN TranslationResult(targetLang, <<>>, FALSE, reply.message)
    ELSE LET translatedText ==
                 IF TruthyText(reply.content) /\ Trim(reply.content) /= <<>>
                 THEN Trim(reply.content) ELSE <<>>
         IN  IF translatedText = <<>> \/ translatedText = text
             THEN TranslationResult(targetLang, <<>>, FALSE,
                                    "Translation returned empty or unchanged result")
             ELSE TranslationResult(targetLang, translatedText, TRUE, NoValue)

\* a settled promise
Fulfilled(value) == [status |-> "fulfilled", value |-> value, reason |-> NoValue]
Rejected(reason) ==
    [status |-> "rejected", value |-> TranslationResult("", <<>>, FALSE, NoValue),
     reason |-> reason]

\* the promise translateText returns: its catch block reads error.message, which
\* itself throws when the caught value is undefined
translateTextPromise(text, targetLang, reply) ==
    IF reply = ThrewNothing THEN Rejected(NoMessageError)
    ELSE Fulfilled(translateText(text, targetLang, reply))

\* history: a settled promise with the rank of its completion among its siblings
Ranked(promise, rank) ==
    [status |-> promise.status, value |-> promise.value, reason |-> promise.reason,
     rank |-> rank]

settledResults_DropFailed(langs, settled) ==
    SelectSeq([i \in 1..Len(settled) |-> settled[i].value],
              LAMBDA res : res.success)

settledResults_CompletionOrder(langs, settled) ==
    [n \in 1..Len(settled) |->
        LET i == CHOOSE j \in 1..Len(settled) : settled[j].rank = n
        IN  IF settled[i].status = "fulfilled" THEN settled[i].value
            ELSE TranslationResult(langs[i], <<>>, FALSE,
                    IF Truthy(settled[i].reason) THEN settled[i].reason
                    ELSE "Unknown error")]

\* results.map(...) over Promise.allSettled: a fulfilled promise gives its value, a
\* rejected one a failed result for the target at the same index
settledResults(langs, settled) ==
    [i \in 1..Len(settled) |->
        IF settled[i].status = "fulfilled" THEN settled[i].value
        ELSE TranslationResult(langs[i], <<>>, FALSE,
                IF Truthy(settled[i].reason) THEN settled[i].reason ELSE "Unknown error")]

\* LangChainTranslationService.translateToMultiple, given what the model did for
\* each target
translateToMultiple(text, langs, replies) ==
    settledResults(langs,
        [i \in 1..Len(langs) |->
            Ranked(translateTextPromise(text, langs[i], replies[i]), i)])

(***************************************************************************)
(* The reply formatters: utils/text splitLongMessage and the two           *)
(* formatTranslationResults of translator/translate.                       *)
(***************************************************************************)
\* the locals of splitLongMessage
NoChunks == [chunks |-> <<>>, currentChunk |-> <<>>]

\* if (currentChunk) { chunks.push(currentChunk.trim()); currentChunk = '' }
pushChunk(st) ==
    IF st.currentChunk /= <<>>
    THEN [chunks |-> Append(st.chunks, Trim(st.currentChunk)), currentChunk |-> <<>>]
    ELSE st

appended_Overwrite(currentChunk, sep, piece) == piece

\* currentChunk += (currentChunk ? sep : '') + piece
appended(currentChunk, sep, piece) ==
    currentChunk \o (IF currentChunk /= <<>> THEN <<sep>> ELSE <<>>) \o piece

\* the body of the loop over the words of an overlong line
addWord(st, word, maxLength) ==
    LET s1 == IF Length(st.currentChunk) + Length(word) + 1 > maxLength
              THEN pushChunk(st) ELSE st
    IN  [s1 EXCEPT !.currentChunk = appended(s1.currentChunk, " ", word)]

RECURSIVE addWords(_, _, _)
addWords(st, words, maxLength) ==
    IF words = <<>> THEN st
    ELSE addWords(addWord(st, Head(words), maxLength), Tail(words), maxLength)

\* the body of the loop over the lines of the text
addLine(st, line, maxLength) ==
    IF Length(st.currentChunk) + Length(line) + 1 > maxLength
    THEN LET s1 == pushChunk(st)
         IN  IF Length(line) > maxLength
             THEN addWords(s1, Split(line, " "), maxLength)
             ELSE [s1 EXCEPT !.currentChunk = line]
    ELSE [st EXCEPT !.currentChunk = appended(st.currentChunk, "\n", line)]

RECURSIVE addLines(_, _, _)
addLines(st, lines, maxLength) ==
    IF lines = <<>> THEN st
    ELSE addLines(addLine(st, Head(lines), maxLength), Tail(lines), maxLength)

splitLongMessage_HardCut(text, maxLength) ==
    IF Length(text) <= maxLength THEN <<text>>
    ELSE <<SubSeq(text, 1, maxLength), SubSeq(text, maxLength + 1, Len(text))>>

splitLongMessage(text, maxLength) ==
    IF Length(text) <= maxLength THEN <<text>>
    ELSE pushChunk(addLines(NoChunks, Split(text, "\n"), maxLength)).chunks

\* the flag short code of a language, one element of the text
flagMap == [en |-> ":us:", ja |-> ":jp:", ko |-> ":kr:", fr |-> ":fr:"]

Placeholder == <<"_", "translation failed", "_">>

formatResult_NothingForFailed(flagged, result) ==
    LET flagEmoji == IF result.targetLanguage \in DOMAIN flagMap
                     THEN flagMap[result.targetLanguage]
                     ELSE ":globe_with_meridians:"
        label == IF flagged THEN <<flagEmoji, " ">>
                 ELSE <<"<bullet>", " ", "*", result.targetLanguage, "*", ":", " ">>
    IN  IF result.success THEN label \o result.translatedText ELSE <<>>

\* the line of one outcome: the bot's with a flag, the root translator's with a
\* bullet and the language code
formatResult(flagged, result) ==
    LET flagEmoji == IF result.targetLanguage \in DOMAIN flagMap
                     THEN flagMap[result.targetLanguage]
                     ELSE ":globe_with_meridians:"
        label == IF flagged THEN <<flagEmoji, " ">>
                 ELSE <<"<bullet>", " ", "*", result.targetLanguage, "*", ":", " ">>
    IN  IF result.success /\ TruthyText(result.translatedText)
        THEN label \o result.translatedText
        ELSE label \o Placeholder

\* apps/bot translator/translate formatTranslationResults
formatTranslationResults(sourceLang, langs, results) ==
    Join([i \in 1..Len(results) |-> formatResult(TRUE, results[i])], <<"\n", "\n">>)

\* src translator/translate formatTranslationResults: a header, then the lines
formatTranslationResultsWithHeader(sourceLang, langs, results) ==
    LET header == <<"LingoCat detected ", "<backtick>", sourceLang, "<backtick>", " -> ">>
                    \o Join([i \in 1..Len(langs) |-> <<"<backtick>", langs[i], "<backtick>">>],
                            <<",", " ">>)
    IN  header \o <<"\n">>
          \o Join([i \in 1..Len(results) |-> formatResult(FALSE, results[i])], <<"\n">>)

(***************************************************************************)
(* The Slack handlers (createSlackApp).                                    *)
(***************************************************************************)
markMessageProcessed_Skip(c, channelId, messageTs, t) == c

markMessageProcessed(c, channelId, messageTs, t) ==
    markProcessed(c, channelId, messageTs, t)

Hello == <<"h", "e", "l", "l", "o", " ", "t", "e", "a", "m">>

\* message events delivered to app.message: a human message in each channel, a
\* bot's message and an empty message
PipelineMessages ==
    { Message(ch, <<"1", ".", "0">>, NoValue, NoValue, NoValue, NoText, Hello) :
        ch \in Channels }
    \cup { Message(<<"C", "1">>, <<"1", ".", "0">>, "B1", NoValue, NoValue, NoText, Hello),
           Message(<<"C", "1">>, <<"1", ".", "0">>, NoValue, NoValue, NoValue, NoText, <<>>) }

\* the codes detectLanguage accepts, each with its spelling
validLangCodes ==
    [en |-> <<"e", "n">>, ko |-> <<"k", "o">>, ja |-> <<"j", "a">>, zh |-> <<"z", "h">>,
     es |-> <<"e", "s">>, fr |-> <<"f", "r">>, de |-> <<"d", "e">>, it |-> <<"i", "t">>,
     pt |-> <<"p", "t">>, ru |-> <<"r", "u">>, ar |-> <<"a", "r">>, hi |-> <<"h", "i">>,
     th |-> <<"t", "h">>, vi |-> <<"v", "i">>, id |-> <<"i", "d">>, ms |-> <<"m", "s">>,
     tl |-> <<"t", "l">>, und |-> <<"u", "n", "d">>]

\* character classes of the mention patterns: [a-z] under the i flag, \w
Letters ==
    {"a", "b", "c", "d", "e", "f", "g", "h", "i", "j", "k", "l", "m", "n", "o", "p", "q",
     "r", "s", "t", "u", "v", "w", "x", "y", "z",
     "A", "B", "C", "D", "E", "F", "G", "H", "I", "J", "K", "L", "M", "N", "O", "P", "Q",
     "R", "S", "T", "U", "V", "W", "X", "Y", "Z"}
WordChars == Letters \cup {"0", "1", "2", "3", "4", "5", "6", "7", "8", "9", "_"}
TargetChars == Letters \cup {","} \cup WhiteSpace

RECURSIVE RunLength(_, _, _)
\* the number of consecutive characters of class from position i on (a greedy
\* quantifier over one class)
RunLength(s, i, class) ==
    IF i <= Len(s) /\ s[i] \in class THEN 1 + RunLength(s, i + 1, class) ELSE 0

\* where "->" must stand for /@\w+\s*->/ to match from the "@" at i
ArrowAfterName(text, i) ==
    LET w == RunLength(text, i + 1, WordChars)
    IN  i + 1 + w + RunLength(text, i + 1 + w, WhiteSpace)

\* /@\w+\s*->\s*([a-z,\s]+)/i matches from position i
MentionMatchAt(text, i) ==
    LET j == ArrowAfterName(text, i)
    IN  /\ text[i] = "@"
        /\ RunLength(text, i + 1, WordChars) >= 1
        /\ j + 1 <= Len(text)
        /\ text[j] = "-"
        /\ text[j + 1] = ">"
        /\ RunLength(text, j + 2, TargetChars) >= 1

\* the capture group of the leftmost match: \s* takes the leading whitespace, but
\* gives one character back when nothing else is left for the group
mentionCapture(text) ==
    LET i == CHOOSE k \in 1..Len(text) :
                 MentionMatchAt(text, k) /\ \A h \in 1..(k - 1) : ~MentionMatchAt(text, h)
        from == ArrowAfterName(text, i) + 2
        run == SubSeq(text, from, from + RunLength(text, from, TargetChars) - 1)
    IN  IF TrimStart(run) = <<>> THEN <<run[Len(run)]>> ELSE TrimStart(run)

\* the language code a two-character piece spells
CodeOf(piece) ==
    IF \E c \in DOMAIN validLangCodes : validLangCodes[c] = piece
    THEN CHOOSE c \in DOMAIN validLangCodes : validLangCodes[c] = piece
    ELSE "other"

\* mentionMatch[1].split(',').map(lang => lang.trim()).filter(lang => lang.length === 2)
customTargets(text) ==
    IF \E k \in 1..Len(text) : MentionMatchAt(text, k)
    THEN LET pieces == Split(mentionCapture(text), ",")
             kept == SelectSeq([n \in 1..Len(pieces) |-> Trim(pieces[n])],
                               LAMBDA piece : Length(piece) = 2)
         IN  [n \in 1..Len(kept) |-> CodeOf(kept[n])]
    ELSE <<>>

\* text.replace(pattern, '') for a pattern matching n > 0 characters from position i
Without(text, i, n) == SubSeq(text, 1, i - 1) \o SubSeq(text, i + n, Len(text))

\* the length of the match of /<@\w+>/ at position i, 0 when there is none
MentionTagAt(text, i) ==
    LET w == RunLength(text, i + 2, WordChars)
    IN  IF /\ i + 3 <= Len(text)
           /\ text[i] = "<"
           /\ text[i + 1] = "@"
           /\ w >= 1
           /\ i + 2 + w <= Len(text)
           /\ text[i + 2 + w] = ">"
        THEN w + 3 ELSE 0

\* the length of the match of /->\s*[a-z,\s]+/i at position i, 0 when there is none
TargetListAt(text, i) ==
    IF /\ i + 2 <= Len(text)
       /\ text[i] = "-"
       /\ text[i + 1] = ">"
       /\ RunLength(text, i + 2, TargetChars) >= 1
    THEN 2 + RunLength(text, i + 2, TargetChars) ELSE 0

\* event.text.replace(/<@\w+>/, ''): the leftmost match is removed
withoutMentionTag(text) ==
    IF \E k \in 1..Len(text) : MentionTagAt(text, k) > 0
    THEN LET i == CHOOSE k \in 1..Len(text) :
                      MentionTagAt(text, k) > 0
                        /\ \A h \in 1..(k - 1) : MentionTagAt(text, h) = 0
         IN  Without(text, i, MentionTagAt(text, i))
    ELSE text

\* text.replace(/->\s*[a-z,\s]+/i, ''): the leftmost match is removed
withoutTargetList(text) ==
    IF \E k \in 1..Len(text) : TargetListAt(text, k) > 0
    THEN LET i == CHOOSE k \in 1..Len(text) :
                      TargetListAt(text, k) > 0
                        /\ \A h \in 1..(k - 1) : TargetListAt(text, h) = 0
         IN  Without(text, i, TargetListAt(text, i))
    ELSE text

\* event.text.replace(/<@\w+>/, '').replace(/->\s*[a-z,\s]+/i, '').trim()
textToTranslate(text) == Trim(withoutTargetList(withoutMentionTag(text)))

\* an app_mention event
MentionEvent(tx) ==
    [channel |-> <<"C", "1">>, ts |-> <<"1", ".", "0">>, text |-> tx]

\* the texts of the mentions: Slack writes the mention as <@U1>, the README as
\* @LingoCat; <annyeong> is one Korean word
PlainMention == <<"<", "@", "U", "1", ">", " ", "h", "e", "l", "l", "o", " ", "t", "e", "a", "m">>
BareMention == <<"<", "@", "U", "1", ">">>
ReadmeMention ==
    <<"@", "L", "i", "n", "g", "o", "C", "a", "t", " ", "-", ">", " ", "e", "n", ",", " ",
      "f", "r", "\n", "<annyeong>">>
SlackMention == <<"<", "@", "U", "1", ">", " ", "-", ">", " ", "e", "n", ",", " ", "f", "r", " ", "<annyeong>">>
KoreanOnlyMention == <<"@", "L", "i", "n", "g", "o", "C", "a", "t", " ", "-", ">", " ", "k", "o", " ", "<annyeong>">>
EnglishMention == <<"@", "L", "i", "n", "g", "o", "C", "a", "t", " ", "-", ">", " ", "e", "n", ",", " ", "f", "r", " ", "h", "e", "l", "l", "o">>

MentionEvents ==
    { MentionEvent(tx) : tx \in {PlainMention, BareMention, ReadmeMention, SlackMention,
                                 KoreanOnlyMention, EnglishMention} }

RunIds == 1..MaxRuns

(***************************************************************************)
(* Metrics (infra/metrics).                                                *)
(***************************************************************************)
\* recordTranslationSuccess: the record pushed to the collector (its wall-clock
\* timestamp and latency are left out)
recordTranslationSuccess(channelId, messageTs, sourceLang, langs, successfulCount, failedCount) ==
    [channelId |-> channelId, messageTs |-> messageTs, sourceLang |-> sourceLang,
     targetLangs |-> langs, success |-> TRUE,
     successfulTranslations |-> successfulCount, failedTranslations |-> failedCount,
     errorType |-> NoValue]

\* recordTranslationFailure: the record pushed to the collector
recordTranslationFailure(channelId, messageTs, sourceLang, langs, errorType) ==
    [channelId |-> channelId, messageTs |-> messageTs, sourceLang |-> sourceLang,
     targetLangs |-> langs, success |-> FALSE,
     successfulTranslations |-> 0, failedTranslations |-> Len(langs),
     errorType |-> errorType]

\* translationResults.filter(r => r.success).length and .filter(r => !r.success).length
successfulTranslations(results) == Len(SelectSeq(results, LAMBDA res : res.success))
failedTranslations(results) == Len(SelectSeq(results, LAMBDA res : ~res.success))

\* the success rate getSystemMetrics computes from the records of its window:
\* successfulEvents / recentMetrics.length, as the pair of the two numbers
successRate(recentMetrics) ==
    <<Len(SelectSeq(recentMetrics, LAMBDA m : m.success)), Len(recentMetrics)>>

IdleRun ==
    [handler |-> "none", pc |-> "idle", message |-> NoMessage, custom |-> <<>>,
     passed |-> FALSE, processedAtFilter |-> FALSE, liveAtFilter |-> FALSE,
     sourceLang |-> NoValue, configured |-> <<>>, targets |-> <<>>, results |-> <<>>,
     parts |-> 0, posted |-> 0,
     detectCalls |-> 0, translateCalls |-> 0, replies |-> 0, outcome |-> NoValue,
     metrics |-> <<>>]

Update(r, run) ==
    runs' = [runs EXCEPT ![r] = run]

CanStart(r) ==
    /\ runs[r].pc = "idle"
    /\ IF r = 1 THEN TRUE ELSE runs[r - 1].pc /= "idle"

MessageReceived_MarksDuplicates(r, m) ==
    LET v == shouldProcessMessage(m, cache, now)
        swept == cacheAfterFilter(m, cache, now)
        again == v.shouldProcess \/ v.reason = ReasonProcessed
    IN  /\ CanStart(r)
        /\ cache' = IF again
                    THEN markMessageProcessed(swept, v.channelId, v.messageTs, now)
                    ELSE swept
        /\ marked' = IF again
                     THEN [marked EXCEPT ![generateKey(v.channelId, v.messageTs)] = now]
                     ELSE marked
        /\ Update(r, [IdleRun EXCEPT
                !.handler = "message", !.message = m,
                !.passed = v.shouldProcess,
                !.processedAtFilter = isProcessed(cache, m.channel, m.ts, now),
                !.liveAtFilter = Live(generateKey(m.channel, m.ts)),
                !.pc = IF v.shouldProcess THEN "detect" ELSE "done",
                !.detectCalls = IF v.shouldProcess THEN 1 ELSE 0,
                !.outcome = IF v.shouldProcess THEN NoValue ELSE "skipped"])
        /\ UNCHANGED <<now, lastCall, targetLangs, batch, format, store>>

\* app.message callback, up to its first await: the filter, the mark, and the call
\* of detectLanguage
MessageReceived(r, m) ==
    LET v == shouldProcessMessage(m, cache, now)
        swept == cacheAfterFilter(m, cache, now)
    IN  /\ CanStart(r)
        /\ cache' = IF v.shouldProcess
                    THEN markMessageProcessed(swept, v.channelId, v.messageTs, now)
                    ELSE swept
        /\ marked' = IF v.shouldProcess
                     THEN [marked EXCEPT ![generateKey(v.channelId, v.messageTs)] = now]
                     ELSE marked
        /\ Update(r, [IdleRun EXCEPT
                !.handler = "message", !.message = m,
                !.passed = v.shouldProcess,
                !.processedAtFilter = isProcessed(cache, m.channel, m.ts, now),
                !.liveAtFilter = Live(generateKey(m.channel, m.ts)),
                !.pc = IF v.shouldProcess THEN "detect" ELSE "done",
                !.detectCalls = IF v.shouldProcess THEN 1 ELSE 0,
                !.outcome = IF v.shouldProcess THEN NoValue ELSE "skipped"])
        /\ UNCHANGED <<now, lastCall, targetLangs, batch, format, store>>

MessageDetected_TranslatesUnd(r, lang) ==
    LET run == runs[r]
        tl == dispatchTargets(targetLangs, lang)
    IN  /\ run.handler = "message" /\ run.pc = "detect"
        /\ Update(r,
             IF Len(tl) = 0
             THEN [run EXCEPT !.sourceLang = lang, !.configured = targetLangs,
                              !.pc = "done", !.outcome = "no targets"]
             ELSE [run EXCEPT !.sourceLang = lang, !.configured = targetLangs,
                              !.targets = tl, !.pc = "translate",
                              !.translateCalls = Len(tl)])
        /\ UNCHANGED <<now, cache, marked, lastCall, targetLangs, batch, format, store>>

MessageDetected_NoEmptyCheck(r, lang) ==
    LET run == runs[r]
        tl == dispatchTargets(targetLangs, lang)
    IN  /\ run.handler = "message" /\ run.pc = "detect"
        /\ Update(r,
             IF lang = "und"
             THEN [run EXCEPT !.sourceLang = lang, !.pc = "done", !.outcome = "undetermined"]
             ELSE [run EXCEPT !.sourceLang = lang, !.configured = targetLangs,
                              !.targets = tl, !.pc = "translate",
                              !.translateCalls = Len(tl)])
        /\ UNCHANGED <<now, cache, marked, lastCall, targetLangs, batch, format, store>>

\* detectLanguage settles (it catches every error and answers 'und'); the handler
\* runs on to its next await or to its return
MessageDetected(r, lang) ==
    LET run == runs[r]
        tl == dispatchTargets(targetLangs, lang)
    IN  /\ run.handler = "message" /\ run.pc = "detect"
        /\ Update(r,
             IF lang = "und"
             THEN [run EXCEPT !.sourceLang = lang, !.pc = "done", !.outcome = "undetermined"]
             ELSE IF Len(tl) = 0
             THEN [run EXCEPT !.sourceLang = lang, !.configured = targetLangs,
                              !.pc = "done", !.outcome = "no targets"]
             ELSE [run EXCEPT !.sourceLang = lang, !.configured = targetLangs,
                              !.targets = tl, !.pc = "translate",
                              !.translateCalls = Len(tl)])
        /\ UNCHANGED <<now, cache, marked, lastCall, targetLangs, batch, format, store>>

\* translateToMultiple settles: the reply is formatted, split into parts (their
\* number follows from the length of the texts the model returned) and say is
\* called for the first part
Translated(r, replies, nParts) ==
    LET run == runs[r]
    IN  /\ run.pc = "translate"
        /\ Update(r, [run EXCEPT
                !.results = translateToMultiple(run.message.text, run.targets, replies),
                !.parts = nParts, !.pc = "say"])
        /\ UNCHANGED <<now, cache, marked, lastCall, targetLangs, batch, format, store>>

\* say resolves for one part of the reply: the next part is sent, or the handler
\* records its metrics and returns
SayResolved(r) ==
    LET run == runs[r]
    IN  /\ run.pc = "say"
        /\ Update(r, [run EXCEPT
                !.posted = @ + 1, !.replies = @ + 1,
                !.pc = IF run.posted + 1 < run.parts THEN "say" ELSE "done",
                !.outcome = IF run.posted + 1 < run.parts THEN NoValue ELSE "posted",
                !.metrics = IF run.posted + 1 < run.parts THEN @
                            ELSE <<recordTranslationSuccess(
                                      run.message.channel, run.message.ts,
                                      run.sourceLang, run.targets,
                                      successfulTranslations(run.results),
                                      failedTranslations(run.results))>>])
        /\ UNCHANGED <<now, cache, marked, lastCall, targetLangs, batch, format, store>>

\* say rejects: the catch block. The message handler asks client.team.info() for
\* its failure metrics, the mention handler says an apology
SayRejected(r) ==
    LET run == runs[r]
    IN  /\ run.pc \in {"say", "sayFinal"}
        /\ Update(r, [run EXCEPT
                !.pc = IF run.handler = "message" THEN "teamInfo" ELSE "sayError"])
        /\ UNCHANGED <<now, cache, marked, lastCall, targetLangs, batch, format, store>>

catchOutcome_Propagates(settledOk) == IF settledOk THEN "failed" ELSE "unhandled"

\* the await inside a catch block sits in a try/catch of its own: whether it
\* resolves or rejects, the handler returns normally
catchOutcome(settledOk) == "failed"

TeamInfoSettled_Unmarks(r, ok) ==
    LET run == runs[r]
        key == generateKey(run.message.channel, run.message.ts)
    IN  /\ run.pc = "teamInfo"
        /\ Update(r, [run EXCEPT !.pc = "done", !.outcome = catchOutcome(ok)])
        /\ cache' = [k \in DOMAIN cache \ {key} |-> cache[k]]
        /\ UNCHANGED <<now, marked, lastCall, targetLangs, batch, format, store>>

\* client.team.info() settles either way: the failure is recorded (with the
\* configured targets and source 'unknown') or the metrics error is logged
TeamInfoSettled(r, ok) ==
    LET run == runs[r]
    IN  /\ run.pc = "teamInfo"
        /\ Update(r, [run EXCEPT
                !.pc = "done", !.outcome = catchOutcome(ok),
                !.metrics = IF ok
                            THEN <<recordTranslationFailure(
                                      run.message.channel, run.message.ts, "unknown",
                                      targetLangs, "processing_error")>>
                            ELSE @])
        /\ UNCHANGED <<now, cache, marked, lastCall, targetLangs, batch, format, store>>

\* app_mention callback, up to its first await: the mention is parsed; with no text
\* left it says a hint, otherwise it calls detectLanguage
MentionReceived(r, e) ==
    /\ CanStart(r)
    /\ Update(r, [IdleRun EXCEPT
            !.handler = "mention",
            !.message = [NoMessage EXCEPT !.channel = e.channel, !.ts = e.ts,
                                          !.text = textToTranslate(e.text)],
            !.custom = customTargets(e.text),
            !.pc = IF textToTranslate(e.text) = <<>> THEN "sayFinal" ELSE "detect",
            !.outcome = IF textToTranslate(e.text) = <<>> THEN "no text" ELSE NoValue,
            !.detectCalls = IF textToTranslate(e.text) = <<>> THEN 0 ELSE 1])
    /\ UNCHANGED <<now, cache, marked, lastCall, targetLangs, batch, format, store>>

MentionDetected(r, lang) ==
    LET run == runs[r]
        base == IF Len(run.custom) > 0 THEN run.custom ELSE targetLangs
        tl == dispatchTargets(base, lang)
    IN  /\ run.handler = "mention" /\ run.pc = "detect"
        /\ Update(r,
             IF lang = "und"
             THEN [run EXCEPT !.sourceLang = lang, !.pc = "sayFinal",
                              !.outcome = "undetermined"]
             ELSE IF Len(tl) = 0
             THEN [run EXCEPT !.sourceLang = lang, !.configured = base,
                              !.pc = "sayFinal", !.outcome = "no targets"]
             ELSE [run EXCEPT !.sourceLang = lang, !.configured = base,
                              !.targets = tl, !.pc = "translate",
                              !.translateCalls = Len(tl)])
        /\ UNCHANGED <<now, cache, marked, lastCall, targetLangs, batch, format, store>>

\* the single say of a mention's early return resolves
SayFinalResolved(r) ==
    LET run == runs[r]
    IN  /\ run.pc = "sayFinal"
        /\ Update(r, [run EXCEPT !.replies = @ + 1, !.pc = "done"])
        /\ UNCHANGED <<now, cache, marked, lastCall, targetLangs, batch, format, store>>

\* the apology of the mention handler's catch block settles
SayErrorSettled(r, ok) ==
    LET run == runs[r]
    IN  /\ run.pc = "sayError"
        /\ Update(r, [run EXCEPT !.replies = IF ok THEN @ + 1 ELSE @,
                                 !.pc = "done", !.outcome = catchOutcome(ok)])
        /\ UNCHANGED <<now, cache, marked, lastCall, targetLangs, batch, format, store>>

\* the health endpoint reads the cache statistics
HealthCheck ==
    /\ cache' = cleanExpired(cache, now)
    /\ UNCHANGED <<now, marked, lastCall, targetLangs, runs, batch, format, store>>

\* the process after createSlackApp, TARGET_LANGS being one of configs
InitWith(configs) ==
    /\ now = 0
    /\ cache = [k \in {} |-> 0]
    /\ marked = [k \in Keys |-> -1]
    /\ lastCall = NoCall
    /\ targetLangs \in configs
    /\ runs = [r \in RunIds |-> IdleRun]
    /\ batch = NoBatch
    /\ format = NoFormat
    /\ store = NoStore

Init == InitWith({ <<"ko", "ja">>, <<"en">> })

\* translateToMultiple settles in run r, the model having behaved as one of kindSet
\* in each call, and the reply being split into one of partCounts parts
TranslatedAs(r, kindSet, partCounts) ==
    \E nParts \in partCounts :
        /\ runs[r].pc = "translate"
        /\ \E kinds \in [1..Len(runs[r].targets) -> kindSet] :
              Translated(r, [i \in 1..Len(runs[r].targets) |->
                                ModelReply(kinds[i], runs[r].message.text,
                                           runs[r].targets[i])], nParts)

\* the notices the mention handler says outside a translation
Notice == <<"S", "o", "r", "r", "y">>

\* the text of the first reply invocation q posted
ReplyText(q) ==
    IF runs[q].results = <<>> THEN Notice
    ELSE formatTranslationResults(runs[q].sourceLang, runs[q].targets, runs[q].results)

\* how Slack marks a message a bot posted: bot_id, app_id, subtype
EchoShapes ==
    { <<"B1", NoValue, NoValue>>, <<NoValue, "A1", NoValue>>,
      <<NoValue, NoValue, "bot_message">>, <<"B1", "A1", "bot_message">> }

\* the message event Slack delivers for the reply invocation q posted
ReplyEcho(q, shape) ==
    Message(runs[q].message.channel, EchoStamp, shape[1], shape[2], shape[3], NoText,
            ReplyText(q))

\* a reply the bot posted comes back to app.message
ReplyDelivered(r, q, shape) ==
    /\ runs[q].replies > 0
    /\ MessageReceived(r, ReplyEcho(q, shape))

(***************************************************************************)
(* Spec: up to MaxRuns handler invocations interleaved at their awaits,    *)
(* the clock and the health endpoint running alongside. The detector       *)
(* answers 'en' or 'und', the model translates every call and the reply    *)
(* fits one part. Slack delivers the replies back as message events.       *)
(***************************************************************************)
Next ==
    \/ Tick
    \/ HealthCheck
    \/ \E r \in RunIds, m \in PipelineMessages : MessageReceived(r, m)
    \/ \E r, q \in RunIds, shape \in EchoShapes : ReplyDelivered(r, q, shape)
    \/ \E r \in RunIds, lang \in {"en", "und"} : MessageDetected(r, lang)
    \/ \E r \in RunIds : MentionReceived(r, MentionEvent(PlainMention))
    \/ \E r \in RunIds, lang \in {"en", "und"} : MentionDetected(r, lang)
    \/ \E r \in RunIds : TranslatedAs(r, {"translation"}, {1})
    \/ \E r \in RunIds : SayResolved(r)
    \/ \E r \in RunIds : SayRejected(r)
    \/ \E r \in RunIds, ok \in BOOLEAN : TeamInfoSettled(r, ok)
    \/ \E r \in RunIds : SayFinalResolved(r)
    \/ \E r \in RunIds, ok \in BOOLEAN : SayErrorSettled(r, ok)

Spec == Init /\ [][Next]_vars

(***************************************************************************)
(* HandlerSpec: one handler invocation at a time is followed through every *)
(* answer of the detector and every behaviour of the model in each call.   *)
(***************************************************************************)
HandlerNext ==
    \/ Tick
    \/ \E m \in PipelineMessages : MessageReceived(1, m)
    \/ \E lang \in DetectLangs : MessageDetected(1, lang)
    \/ \E e \in MentionEvents : MentionReceived(1, e)
    \/ \E lang \in DetectLangs : MentionDetected(1, lang)
    \/ TranslatedAs(1, ReplyKinds, 1..MaxParts)
    \/ SayResolved(1)
    \/ SayRejected(1)
    \/ \E ok \in BOOLEAN : TeamInfoSettled(1, ok)
    \/ SayFinalResolved(1)
    \/ \E ok \in BOOLEAN : SayErrorSettled(1, ok)

HandlerInit == InitWith(TargetConfigs)

HandlerSpec == HandlerInit /\ [][HandlerNext]_vars

(***************************************************************************)
(* BatchSpec: one call of translateToMultiple, the per-target calls        *)
(* advancing one await at a time in any order. impl "retry" is             *)
(* translator/translate (translateToWithRetry around translateTo), impl    *)
(* "langchain" is LangChainTranslationService (translateText), impl        *)
(* "detect" is one call of metrics detectLanguageWithRetry.                *)
(***************************************************************************)
preserveFormatting(text) == text

translateTo_NoCatch(text, targetLang, reply) ==
    IF reply.threw THEN Rejected(reply.message)
    ELSE IF reply.content = NoText THEN Rejected("Cannot read properties of undefined")
    ELSE Fulfilled(TranslationResult(targetLang, preserveFormatting(Trim(reply.content)),
                                     TRUE, NoValue))

\* translateTo: the promise it returns, given what generateContent raced against the
\* timeout did. Every exception inside it, the timeout's included, is caught; the
\* catch block reads error.message, which itself throws when the caught value is
\* undefined
translateTo(text, targetLang, reply) ==
    IF reply = ThrewNothing THEN Rejected(NoMessageError)
    ELSE IF reply.threw
    THEN Fulfilled(TranslationResult(targetLang, <<>>, FALSE, reply.message))
    ELSE IF reply.content = NoText
    THEN Fulfilled(TranslationResult(targetLang, <<>>, FALSE,
                                     "Cannot read properties of undefined"))
    ELSE Fulfilled(TranslationResult(targetLang, preserveFormatting(Trim(reply.content)),
                                     TRUE, NoValue))

RECURSIVE Pow2(_)
\* Math.pow(2, n)
Pow2(n) == IF n <= 0 THEN 1 ELSE 2 * Pow2(n - 1)

\* one call of translateToWithRetry: the loop counter, where it waits, the latest
\* caught error, the promise once settled; history: the model's behaviour in each
\* attempt, the delays taken, the rank of its completion
NewCall ==
    [pc |-> "attempt", attempt |-> 0, lastError |-> NoValue,
     promise |-> Ranked(Rejected(NoValue), 0), history |-> <<>>, delays |-> <<>>]

Settle(call, promise) == [call EXCEPT !.pc = "settled", !.promise = Ranked(promise, 0)]

\* the head of the for loop with counter a: the next attempt, or the return after
\* the loop
loopHead(call, a, targetLang, retryMax) ==
    IF a <= retryMax
    THEN [call EXCEPT !.pc = "attempt", !.attempt = a]
    ELSE Settle(call, Fulfilled(TranslationResult(targetLang, <<>>, FALSE,
                    IF Truthy(call.lastError) THEN call.lastError
                    ELSE "Translation failed after retries")))

afterAttempt_FlatDelay(call, p, targetLang, retryMax) ==
    IF p.status = "fulfilled"
    THEN IF p.value.success THEN Settle(call, Fulfilled(p.value))
         ELSE IF call.attempt = 0 THEN Settle(call, Fulfilled(p.value))
         ELSE loopHead(call, call.attempt + 1, targetLang, retryMax)
    ELSE IF call.attempt < retryMax
         THEN [call EXCEPT !.lastError = p.reason, !.pc = "delay",
                           !.delays = Append(@, 1000)]
         ELSE loopHead([call EXCEPT !.lastError = p.reason], call.attempt + 1,
                       targetLang, retryMax)

\* translateToWithRetry when the awaited translateTo settles as p
afterAttempt(call, p, targetLang, retryMax) ==
    IF p.status = "fulfilled"
    THEN IF p.value.success THEN Settle(call, Fulfilled(p.value))
         ELSE IF call.attempt = 0 THEN Settle(call, Fulfilled(p.value))
         ELSE loopHead(call, call.attempt + 1, targetLang, retryMax)
    ELSE IF call.attempt < retryMax
         THEN [call EXCEPT !.lastError = p.reason, !.pc = "delay",
                           !.delays = Append(@, Pow2(call.attempt) * 1000)]
         ELSE loopHead([call EXCEPT !.lastError = p.reason], call.attempt + 1,
                       targetLang, retryMax)

\* translateToWithRetry when its backoff timer fires
afterDelay(call, targetLang, retryMax) ==
    loopHead(call, call.attempt + 1, targetLang, retryMax)

\* the generation model's behaviours for one detection call
DetectKinds == {"en", "ko", "padded", "und", "invalid", "none", "throw", "timeout"}

DetectReply(kind) ==
    CASE kind = "en" -> Returned(<<"e", "n">>)
      [] kind = "ko" -> Returned(<<"k", "o">>)
      [] kind = "padded" -> Returned(<<" ", "E", "N", "\n">>)
      [] kind = "und" -> Returned(<<"u", "n", "d">>)
      [] kind = "invalid" -> Returned(<<"k", "o", "r", "e", "a", "n">>)
      [] kind = "none" -> Returned(NoText)
      [] kind = "throw" -> Threw("503 Service Unavailable")
      [] kind = "timeout" -> Threw("Detection timeout")

\* metrics detectLanguage: the promise it returns, given what generateContent raced
\* against the timeout did. Every exception inside it is caught and becomes 'und'
detectLanguage(text, reply) ==
    IF reply.threw THEN Fulfilled("und")
    ELSE IF reply.content = NoText THEN Fulfilled("und")
    ELSE LET detectedLang == ToLowerCase(Trim(reply.content))
             valid == {c \in DOMAIN validLangCodes : validLangCodes[c] = detectedLang}
         IN  IF valid /= {} THEN Fulfilled(CHOOSE c \in valid : TRUE)
             ELSE Fulfilled("und")

\* the head of the for loop of detectLanguageWithRetry with counter a
detectLoopHead(call, a, retryMax) ==
    IF a <= retryMax
    THEN [call EXCEPT !.pc = "attempt", !.attempt = a]
    ELSE Settle(call, Fulfilled("und"))

afterDetectAttempt_RetryUnd(call, p, retryMax) ==
    IF p.status = "fulfilled" /\ p.value /= "und" THEN Settle(call, Fulfilled(p.value))
    ELSE IF call.attempt < retryMax
    THEN [call EXCEPT !.pc = "delay", !.delays = Append(@, Pow2(call.attempt) * 1000)]
    ELSE detectLoopHead(call, call.attempt + 1, retryMax)

\* detectLanguageWithRetry when the awaited detectLanguage settles as p
afterDetectAttempt(call, p, retryMax) ==
    IF p.status = "fulfilled"
    THEN IF p.value /= "und" THEN Settle(call, Fulfilled(p.value))
         ELSE IF call.attempt = 0 THEN Settle(call, Fulfilled("und"))
         ELSE detectLoopHead(call, call.attempt + 1, retryMax)
    ELSE IF call.attempt < retryMax
         THEN [call EXCEPT !.lastError = p.reason, !.pc = "delay",
                           !.delays = Append(@, Pow2(call.attempt) * 1000)]
         ELSE detectLoopHead([call EXCEPT !.lastError = p.reason], call.attempt + 1,
                             retryMax)

\* detectLanguageWithRetry when its backoff timer fires
afterDetectDelay(call, retryMax) == detectLoopHead(call, call.attempt + 1, retryMax)

BatchTargets == { <<"ko">>, <<"ko", "ja">>, <<"en", "ko", "ja">> }
\* envConfig.retryMax: parseInt of RETRY_MAX, any integer
RetryConfigs == {-1, 0, 1, 2}
BatchKinds == ReplyKinds \cup HardKinds \cup {"nothing"}

BatchInit ==
    /\ now = 0
    /\ cache = [k \in {} |-> 0]
    /\ marked = [k \in Keys |-> -1]
    /\ lastCall = NoCall
    /\ targetLangs = <<>>
    /\ runs = NoRuns
    /\ format = NoFormat
    /\ store = NoStore
    /\ \E impl \in {"retry", "langchain", "detect"}, langs \in BatchTargets,
          rm \in RetryConfigs :
          batch = IF impl = "detect"
                  THEN [phase |-> IF rm < 0 THEN "detected" ELSE "detecting",
                        impl |-> impl, text |-> Hello,
                        langs |-> <<>>, retryMax |-> rm, settledCount |-> 0,
                        calls |-> <<detectLoopHead(NewCall, 0, rm)>>, results |-> <<>>]
                  ELSE [phase |-> "running", impl |-> impl, text |-> Hello,
                        langs |-> langs, retryMax |-> rm,
                        settledCount |-> IF impl = "retry" /\ rm < 0
                                         THEN Len(langs) ELSE 0,
                        calls |-> [i \in 1..Len(langs) |->
                                      IF impl = "retry" /\ rm < 0
                                      THEN [loopHead(NewCall, 0, langs[i], rm)
                                               EXCEPT !.promise.rank = i]
                                      ELSE IF impl = "retry"
                                      THEN loopHead(NewCall, 0, langs[i], rm)
                                      ELSE NewCall],
                        results |-> <<>>]

\* the call for target i passes one await
CallStep(i, kind) ==
    LET call == batch.calls[i]
        lang == batch.langs[i]
        reply == ModelReply(kind, batch.text, lang)
        next ==
            IF call.pc = "delay" THEN afterDelay(call, lang, batch.retryMax)
            ELSE IF batch.impl = "retry"
            THEN afterAttempt([call EXCEPT !.history = Append(@, kind)],
                              translateTo(batch.text, lang, reply), lang, batch.retryMax)
            ELSE Settle([call EXCEPT !.history = Append(@, kind)],
                        translateTextPromise(batch.text, lang, reply))
        done == next.pc = "settled"
    IN  /\ batch.phase = "running"
        /\ i \in 1..Len(batch.langs)
        /\ call.pc /= "settled"
        /\ call.pc = "delay" => kind = "translation"
        /\ batch' = [batch EXCEPT
                !.settledCount = IF done THEN @ + 1 ELSE @,
                !.calls[i] = IF done
                             THEN [next EXCEPT !.promise.rank = batch.settledCount + 1]
                             ELSE next]
        /\ UNCHANGED <<now, cache, marked, lastCall, targetLangs, runs, format, store>>

BatchJoin_FirstSettled ==
    /\ batch.phase = "running"
    /\ \E i \in 1..Len(batch.langs) : batch.calls[i].pc = "settled"
    /\ batch' = [batch EXCEPT
            !.phase = "done",
            !.results = settledResults(batch.langs,
                            [i \in 1..Len(batch.langs) |-> batch.calls[i].promise])]
    /\ UNCHANGED <<now, cache, marked, lastCall, targetLangs, runs, format, store>>

\* Promise.allSettled resolves once every call has settled; the results are mapped
BatchJoin ==
    /\ batch.phase = "running"
    /\ \A i \in 1..Len(batch.langs) : batch.calls[i].pc = "settled"
    /\ batch' = [batch EXCEPT
            !.phase = "done",
            !.results = settledResults(batch.langs,
                            [i \in 1..Len(batch.langs) |-> batch.calls[i].promise])]
    /\ UNCHANGED <<now, cache, marked, lastCall, targetLangs, runs, format, store>>

\* one call of detectLanguageWithRetry passes one await
DetectStep(kind) ==
    LET call == batch.calls[1]
        next ==
            IF call.pc = "delay" THEN afterDetectDelay(call, batch.retryMax)
            ELSE afterDetectAttempt([call EXCEPT !.history = Append(@, kind)],
                                    detectLanguage(batch.text, DetectReply(kind)),
                                    batch.retryMax)
    IN  /\ batch.phase = "detecting"
        /\ call.pc /= "settled"
        /\ call.pc = "delay" => kind = "en"
        /\ batch' = [batch EXCEPT
                !.phase = IF next.pc = "settled" THEN "detected" ELSE @,
                !.calls[1] = next]
        /\ UNCHANGED <<now, cache, marked, lastCall, targetLangs, runs, format, store>>

BatchNext ==
    \/ \E i \in 1..Len(batch.langs), kind \in BatchKinds : CallStep(i, kind)
    \/ BatchJoin
    \/ \E kind \in DetectKinds : DetectStep(kind)

BatchSpec == BatchInit /\ [][BatchNext]_vars

(***************************************************************************)
(* LiveSpec: one invocation of the message handler, its translateToMultiple *)
(* followed call by call (LangChainTranslationService), under the          *)
(* assumption that every adapter call and every say settles. Deliveries,   *)
(* the clock and client.team.info() carry no such assumption.              *)
(***************************************************************************)
\* what the generation model does in a call: a translation, an error the service
\* catches, an undefined rejection its catch block trips over
LiveKinds == {"translation", "throw", "nothing"}

\* the indices of the per-target calls of one batch
LiveCalls == 1..3

\* detectLanguage settles in the message handler; with targets left the handler
\* calls translateToMultiple, which starts one translateText per target
MessageDetectedDispatch(r, lang) ==
    LET run == runs[r]
        tl == dispatchTargets(targetLangs, lang)
    IN  /\ run.handler = "message" /\ run.pc = "detect"
        /\ Update(r,
             IF lang = "und"
             THEN [run EXCEPT !.sourceLang = lang, !.pc = "done", !.outcome = "undetermined"]
             ELSE IF Len(tl) = 0
             THEN [run EXCEPT !.sourceLang = lang, !.configured = targetLangs,
                              !.pc = "done", !.outcome = "no targets"]
             ELSE [run EXCEPT !.sourceLang = lang, !.configured = targetLangs,
                              !.targets = tl, !.pc = "translate",
                              !.translateCalls = Len(tl)])
        /\ batch' = IF lang = "und" \/ Len(tl) = 0 THEN batch
                    ELSE [phase |-> "running", impl |-> "langchain",
                          text |-> run.message.text, langs |-> tl, retryMax |-> 0,
                          settledCount |-> 0,
                          calls |-> [i \in 1..Len(tl) |-> NewCall], results |-> <<>>]
        /\ UNCHANGED <<now, cache, marked, lastCall, targetLangs, format, store>>

\* the handler's await of translateToMultiple resumes with the mapped results: the
\* reply is formatted, split into nParts parts and say is called for the first
BatchReturned(r, nParts) ==
    LET run == runs[r]
    IN  /\ run.pc = "translate"
        /\ batch.phase = "done"
        /\ Update(r, [run EXCEPT !.results = batch.results, !.parts = nParts,
                                 !.pc = "say"])
        /\ UNCHANGED <<now, cache, marked, lastCall, targetLangs, batch, format, store>>

LiveNext ==
    \/ Tick
    \/ \E m \in PipelineMessages : MessageReceived(1, m)
    \/ \E lang \in DetectLangs : MessageDetectedDispatch(1, lang)
    \/ \E i \in LiveCalls, kind \in LiveKinds : CallStep(i, kind)
    \/ BatchJoin
    \/ \E nParts \in 1..MaxParts : BatchReturned(1, nParts)
    \/ SayResolved(1)
    \/ SayRejected(1)
    \/ \E ok \in BOOLEAN : TeamInfoSettled(1, ok)

\* every adapter call settles (detectLanguage, each translateText, and with them
\* Promise.allSettled and the handler's await of it) and every say settles
LiveFairness ==
    /\ WF_vars(\E lang \in DetectLangs : MessageDetectedDispatch(1, lang))
    /\ \A i \in LiveCalls : WF_vars(\E kind \in LiveKinds : CallStep(i, kind))
    /\ WF_vars(BatchJoin)
    /\ WF_vars(\E nParts \in 1..MaxParts : BatchReturned(1, nParts))
    /\ WF_vars(SayResolved(1) \/ SayRejected(1))

LiveSpec == HandlerInit /\ [][LiveNext]_vars /\ LiveFairness

(***************************************************************************)
(* Properties of the middleware (DedupSpec).                               *)
(***************************************************************************)

\* C4: for every key, isProcessed(key) after markProcessed(key) answers true while
\* the time elapsed since the latest mark of that key is at most the TTL, and false
\* once more than the TTL has elapsed (and false for a key never marked), whatever
\* other keys were marked or looked up in between. Stated of the answer a call would
\* give in every reachable state and of the answer the latest call gave.
C4_IsProcessedUntilTtl ==
    /\ \A ch \in Channels, ts \in Stamps :
          isProcessed(cache, ch, ts, now)
            <=> (Elapsed(generateKey(ch, ts)) >= 0
                 /\ Elapsed(generateKey(ch, ts)) <= TTL_MS)
    /\ lastCall.op = "isProcessed"
          => (lastCall.result <=> (lastCall.elapsed >= 0 /\ lastCall.elapsed <= TTL_MS))

\* C4 witness: a lookup of a marked key made after its TTL elapsed answered false
C4_Witness ==
    /\ lastCall.op = "isProcessed"
    /\ lastCall.elapsed > TTL_MS
    /\ ~lastCall.result

\* The seven rejection rules in the order of the contract, as predicates of the
\* message and of the cache's answer for its key.
RuleMatches(i, m, processed) ==
    CASE i = 1 -> \/ Truthy(m.bot_id)
                  \/ m.subtype = "bot_message"
                  \/ Truthy(m.app_id)
                  \/ (TruthyText(m.username)
                      /\ Includes(ToLowerCase(m.username), <<"b", "o", "t">>))
      [] i = 2 -> m.subtype \notin {NoValue, "", "message_changed"}
      [] i = 3 -> processed
      [] i = 4 -> m.text = NoText \/ Trim(m.text) = <<>>
      [] i = 5 -> m.text /= NoText /\ \A j \in 1..Len(m.text) : m.text[j] \in WhiteSpace \cup EmojiChars
      [] i = 6 -> m.text /= NoText
                  /\ \E cmd \in { <<"/", "i", "g", "n", "o", "r", "e">>,
                                  <<"!", "i", "g", "n", "o", "r", "e">> } :
                        Includes(ToLowerCase(m.text), cmd)
      [] i = 7 -> m.text /= NoText /\ Length(Trim(m.text)) < 3

RuleReason(i) ==
    CASE i \in {1, 2} -> ReasonBot
      [] i = 3 -> ReasonProcessed
      [] i = 4 -> ReasonEmpty
      [] i = 5 -> ReasonEmoji
      [] i = 6 -> ReasonIgnore
      [] i = 7 -> ReasonShort

FirstRule(m, processed) ==
    CHOOSE i \in 1..7 :
        /\ RuleMatches(i, m, processed)
        /\ \A j \in 1..(i - 1) : ~RuleMatches(j, m, processed)

\* C5: shouldProcessMessage rejects exactly when at least one rule matches, and the
\* reason is that of the first matching rule in the fixed order; a message from a
\* bot with empty text is rejected for the bot reason, an already processed message
\* with empty text as already processed.
C5_FilterPrecedence ==
    lastCall.op = "shouldProcessMessage" =>
        LET m == lastCall.message
            p == lastCall.processed
            any == \E i \in 1..7 : RuleMatches(i, m, p)
        IN  /\ lastCall.result <=> ~any
            /\ any => lastCall.reason = RuleReason(FirstRule(m, p))
            /\ ~any => lastCall.reason = NoValue
            /\ (Truthy(m.bot_id) /\ m.text = <<>>) => lastCall.reason = ReasonBot
            /\ (~RuleMatches(1, m, p) /\ ~RuleMatches(2, m, p) /\ p /\ m.text = <<>>)
                  => lastCall.reason = ReasonProcessed

\* C5 witness: an already processed message with empty text was rejected as
\* already processed
C5_Witness ==
    /\ lastCall.op = "shouldProcessMessage"
    /\ lastCall.processed
    /\ lastCall.message.text = <<>>
    /\ ~lastCall.result
    /\ lastCall.reason = ReasonProcessed

(***************************************************************************)
(* Properties of the handlers (Spec, HandlerSpec).                         *)
(***************************************************************************)
RunKey(r) == generateKey(runs[r].message.channel, runs[r].message.ts)

MessageRuns == {r \in RunIds : runs[r].handler = "message"}

Quiet(r) ==
    /\ runs[r].detectCalls = 0
    /\ runs[r].translateCalls = 0
    /\ runs[r].replies = 0

\* C1: of the message-handler runs delivering one (channel, ts) while its dedup entry
\* is unexpired, at most one passes shouldProcessMessage and reaches language
\* detection, whatever the interleaving: a run delivered while an earlier run's mark
\* is unexpired does not pass, and from the step in which a run passes - before its
\* first await - the cache answers processed for its key until the TTL elapses.
C1_AtMostOnePasses ==
    /\ \A r1, r2 \in MessageRuns :
          (r1 < r2 /\ RunKey(r1) = RunKey(r2) /\ runs[r1].passed /\ runs[r2].liveAtFilter)
            => (~runs[r2].passed /\ runs[r2].detectCalls = 0)
    /\ \A r \in MessageRuns :
          (runs[r].passed /\ Live(RunKey(r)))
            => isProcessed(cache, runs[r].message.channel, runs[r].message.ts, now)

\* C1 witness: a second delivery of the key arrived while the first run was still
\* awaiting language detection, and was turned away
C1_Witness ==
    \E r1, r2 \in MessageRuns :
        /\ r1 < r2 /\ RunKey(r1) = RunKey(r2)
        /\ runs[r1].passed /\ runs[r1].pc = "detect"
        /\ runs[r2].liveAtFilter /\ ~runs[r2].passed /\ runs[r2].pc = "done"

\* C2: a message whose key the dedup cache reports processed at filter time causes
\* no detectLanguage call, no translate call and no reply.
C2_ProcessedIsQuiet ==
    \A r \in MessageRuns : runs[r].processedAtFilter => (~runs[r].passed /\ Quiet(r))

\* C2 witness: an otherwise eligible message was reported processed and skipped
C2_Witness ==
    \E r \in MessageRuns :
        /\ runs[r].processedAtFilter
        /\ runs[r].pc = "done"
        /\ shouldProcessMessage(runs[r].message, [k \in {} |-> 0], 0).shouldProcess

\* C3 as stated: after a message (channel, ts) has been handled once, a later
\* delivery of the same channel and ts to the message handler, at any later time,
\* causes no further adapter call and no second reply.
C3_NeverAgain ==
    \A r1, r2 \in MessageRuns :
        (r1 < r2 /\ RunKey(r1) = RunKey(r2) /\ runs[r1].passed)
          => (~runs[r2].passed /\ Quiet(r2))

\* C3 amended: a later delivery to the message handler, made no more than the TTL
\* (10 minutes) after the message was last handled, is skipped: no adapter call, no
\* reply.
C3_NotAgainWithinTtl ==
    \A r \in MessageRuns :
        runs[r].liveAtFilter => (runs[r].pc = "done" /\ ~runs[r].passed /\ Quiet(r))

\* C3 witness: the first run posted its reply; a later delivery of the same key
\* within the TTL was skipped
C3_Witness ==
    \E r1, r2 \in MessageRuns :
        /\ r1 < r2 /\ RunKey(r1) = RunKey(r2)
        /\ runs[r1].outcome = "posted" /\ runs[r1].replies = 1
        /\ runs[r2].liveAtFilter /\ runs[r2].pc = "done" /\ Quiet(r2)

Range(seq) == {seq[i] : i \in 1..Len(seq)}

Dispatched(r) == runs[r].translateCalls > 0

\* C8: in every batch the message handler or the mention handler dispatches, the
\* targets passed to translateToMultiple do not contain the detected source language.
C8_SourceNotATarget ==
    \A r \in RunIds : Dispatched(r) => runs[r].sourceLang \notin Range(runs[r].targets)

\* C8 witness: a batch was dispatched for a source language that is in the target
\* list the handler started from
C8_Witness ==
    \E r \in RunIds :
        /\ Dispatched(r)
        /\ runs[r].sourceLang \in Range(runs[r].configured)
        /\ runs[r].sourceLang \notin {"ko", "ja"}

\* C9 as stated: for every detected source language other than 'und' the targets the
\* message handler settles on are the configured list without the source language,
\* in configured order, and no language outside the configured list is a target.
C9_GenericSelfFilter ==
    \A r \in MessageRuns :
        (runs[r].sourceLang \notin {NoValue, "und"})
          => /\ runs[r].targets =
                  SelectSeq(targetLangs, LAMBDA lang : lang /= runs[r].sourceLang)
             /\ Range(runs[r].targets) \subseteq Range(targetLangs)

(***************************************************************************)
(* Properties of the fan-out and the retry wrapper (BatchSpec).            *)
(***************************************************************************)
Targets == 1..Len(batch.langs)

\* the model's behaviour in the last attempt made for target i
LastKind(i) ==
    IF batch.calls[i].history = <<>> THEN "no attempt"
    ELSE batch.calls[i].history[Len(batch.calls[i].history)]

\* C6: translateToMultiple resolves with exactly one outcome per requested target,
\* whatever subset of the calls fail, throw or time out: a target whose call threw or
\* timed out is an outcome with success=false, and the others are not lost.
C6_OneOutcomePerTarget ==
    batch.phase = "done" =>
        /\ Len(batch.results) = Len(batch.langs)
        /\ \A i \in Targets :
              /\ batch.calls[i].pc = "settled"
              /\ LastKind(i) \in HardKinds \cup {"nothing", "no attempt"}
                    => ~batch.results[i].success
              /\ LastKind(i) = "translation" =>
                    /\ batch.results[i].success
                    /\ batch.results[i].translatedText = Translation(batch.langs[i])

\* C6 witness: three targets, the call of one threw, three outcomes of which two
\* succeeded
C6_Witness ==
    /\ batch.phase = "done"
    /\ Len(batch.langs) = 3
    /\ Cardinality({i \in Targets : LastKind(i) = "throw"}) = 1
    /\ Len(batch.results) = 3
    /\ Cardinality({i \in Targets : batch.results[i].success}) = 2

\* C7: whatever the order in which the per-target calls complete, the i-th outcome of
\* translateToMultiple is the one for the i-th target of the list supplied.
C7_InputOrder ==
    batch.phase = "done" =>
        \A i \in 1..Len(batch.results) :
            /\ i \in Targets
            /\ batch.results[i].targetLanguage = batch.langs[i]

\* C7 witness: the calls completed in the reverse of the order of the target list
C7_Witness ==
    /\ batch.phase = "done"
    /\ Len(batch.langs) = 3
    /\ \A i \in Targets : batch.calls[i].promise.rank = Len(batch.langs) + 1 - i

\* C10 as stated: a call of translateToWithRetry whose translation fails hard (the
\* adapter throws, or the timeout expires) is attempted again, up to retryMax more
\* times, before it becomes a failed outcome.
C10_HardFailureRetried ==
    \A i \in Targets :
        (/\ batch.impl = "retry"
         /\ batch.calls[i].pc = "settled"
         /\ LastKind(i) \in HardKinds)
          => Len(batch.calls[i].history) = batch.retryMax + 1

(***************************************************************************)
(* Properties of the retry wrappers (BatchSpec).                           *)
(***************************************************************************)
\* the calls of a retry wrapper in flight: translateToWithRetry, one per target, or
\* detectLanguageWithRetry
RetryCalls == IF batch.impl \in {"retry", "detect"} THEN DOMAIN batch.calls ELSE {}

\* what the wrapped operation answered to the wrapper in the n-th attempt of call i
AttemptResult(i, n) ==
    IF batch.impl = "detect"
    THEN detectLanguage(batch.text, DetectReply(batch.calls[i].history[n]))
    ELSE translateTo(batch.text, batch.langs[i],
                     ModelReply(batch.calls[i].history[n], batch.text, batch.langs[i]))

\* a result that is a failure without an exception: 'und', or success=false
SoftFailure(p) ==
    /\ p.status = "fulfilled"
    /\ IF batch.impl = "detect" THEN p.value = "und" ELSE ~p.value.success

\* C11 as stated: with at least three attempts allowed (retryMax >= 2), a call whose
\* adapter throws on the first attempt is attempted again after a delay of 1 second,
\* and one whose adapter throws on the first and second attempts and answers on the
\* third returns that answer after delays of exactly 1 second and 2 seconds.
C11_ThrowTwiceThenSucceed ==
    \A i \in RetryCalls :
        LET call == batch.calls[i]
        IN  (/\ batch.retryMax >= 2
             /\ call.pc = "settled"
             /\ call.history /= <<>>
             /\ call.history[1] \in HardKinds)
              => /\ Len(call.history) >= 2
                 /\ call.delays /= <<>>
                 /\ call.delays[1] = 1000
                 /\ (/\ Len(call.history) = 3
                     /\ call.history[2] \in HardKinds
                     /\ call.history[3] \notin HardKinds)
                      => /\ call.delays = <<1000, 2000>>
                         /\ call.promise.status = "fulfilled"

\* C12: a wrapper whose first attempt returns a failure without throwing ('und' from
\* detectLanguage, success=false from translateTo) is settled with that very result,
\* after one attempt and without any delay.
C12_SoftFailureReturnsAtOnce ==
    \A i \in RetryCalls :
        LET call == batch.calls[i]
        IN  (call.history /= <<>> /\ SoftFailure(AttemptResult(i, 1)))
              => /\ call.pc = "settled"
                 /\ Len(call.history) = 1
                 /\ call.delays = <<>>
                 /\ call.promise.status = "fulfilled"
                 /\ call.promise.value = AttemptResult(i, 1).value

\* C12 witness: detectLanguageWithRetry, allowed retries, returned 'und' after the
\* one attempt in which the model itself answered 'und'
C12_Witness ==
    /\ batch.impl = "detect"
    /\ batch.retryMax >= 1
    /\ batch.phase = "detected"
    /\ batch.calls[1].history = <<"und">>
    /\ batch.calls[1].delays = <<>>
    /\ batch.calls[1].promise.value = "und"

(***************************************************************************)
(* FormatSpec: one call of a formatter on an input of the bounded sets.    *)
(***************************************************************************)
SplitChars == {"a", "b", " ", "\n"}
SplitTexts == UNION { [1..n -> SplitChars] : n \in 0..MaxTextLen }

FormatLangs == {"en", "ko", "xx"}
\* outcomes: translated, translated to two lines, 'successful' with an empty text,
\* failed
Outcomes ==
    { TranslationResult(l, Translation(l), TRUE, NoValue) : l \in FormatLangs }
      \cup { TranslationResult(l, <<"a", "\n", "b">>, TRUE, NoValue) : l \in FormatLangs }
      \cup { TranslationResult(l, <<>>, TRUE, NoValue) : l \in FormatLangs }
      \cup { TranslationResult(l, <<>>, FALSE, "503 Service Unavailable") :
                l \in FormatLangs }
OutcomeLists == UNION { [1..n -> Outcomes] : n \in 0..MaxResults }

FormatInit ==
    /\ now = 0
    /\ cache = [k \in {} |-> 0]
    /\ marked = [k \in Keys |-> -1]
    /\ lastCall = NoCall
    /\ targetLangs = <<>>
    /\ runs = NoRuns
    /\ batch = NoBatch
    /\ format = NoFormat
    /\ store = NoStore

CallSplitLongMessage(text, maxLength) ==
    /\ format.op = "none"
    /\ format' = [op |-> "split", text |-> text, maxLength |-> maxLength,
                  parts |-> splitLongMessage(text, maxLength)]
    /\ UNCHANGED <<now, cache, marked, lastCall, targetLangs, runs, batch, store>>

CallFormatTranslationResults(flagged, sourceLang, results) ==
    LET langs == [i \in 1..Len(results) |-> results[i].targetLanguage]
    IN  /\ format.op = "none"
        /\ format' = [op |-> "format", flagged |-> flagged, sourceLang |-> sourceLang,
                      results |-> results,
                      text |-> IF flagged
                               THEN formatTranslationResults(sourceLang, langs, results)
                               ELSE formatTranslationResultsWithHeader(sourceLang, langs,
                                                                       results)]
        /\ UNCHANGED <<now, cache, marked, lastCall, targetLangs, runs, batch, store>>

FormatNext ==
    \/ \E text \in SplitTexts, maxLength \in 1..MaxLength :
          CallSplitLongMessage(text, maxLength)
    \/ \E flagged \in BOOLEAN, results \in OutcomeLists :
          CallFormatTranslationResults(flagged, "ja", results)

FormatSpec == FormatInit /\ [][FormatNext]_vars

(***************************************************************************)
(* Properties of the formatters (FormatSpec).                              *)
(***************************************************************************)
\* C13 as stated: every part splitLongMessage returns is at most maxLength long,
\* whatever the text, a text with a line or a word longer than maxLength included.
C13_PartsFit ==
    format.op = "split" =>
        \A i \in 1..Len(format.parts) : Length(format.parts[i]) <= format.maxLength

AllWhiteSpace(s) == \A i \in 1..Len(s) : s[i] \in WhiteSpace

RECURSIVE Reassembles(_, _)
\* text is the parts in their order, with nothing but whitespace before, between and
\* after them
Reassembles(text, parts) ==
    IF parts = <<>> THEN AllWhiteSpace(text)
    ELSE \E k \in 0..Len(text) :
            /\ AllWhiteSpace(SubSeq(text, 1, k))
            /\ k + Len(Head(parts)) <= Len(text)
            /\ SubSeq(text, k + 1, k + Len(Head(parts))) = Head(parts)
            /\ Reassembles(SubSeq(text, k + Len(Head(parts)) + 1, Len(text)),
                           Tail(parts))

\* C14: the parts splitLongMessage returns, taken in order, are the text with only
\* whitespace removed, and only where a part begins or ends: nothing else is lost,
\* duplicated or reordered.
C14_PartsReassemble ==
    format.op = "split" => Reassembles(format.text, format.parts)

\* C14 witness: a text split into several parts, whitespace having been removed at
\* their boundaries
C14_Witness ==
    /\ format.op = "split"
    /\ Len(format.parts) >= 2
    /\ \E i \in 1..Len(format.text) : format.text[i] = "a"
    /\ \E i \in 1..Len(format.text) : format.text[i] = "b"
    /\ Len(Join(format.parts, <<>>)) < Len(format.text)

\* the elements of a reply that open the segment of one outcome
LabelTokens == {flagMap[l] : l \in DOMAIN flagMap} \cup {":globe_with_meridians:", "<bullet>"}

LabelPositions(text) == {i \in 1..Len(text) : text[i] \in LabelTokens}

\* the n-th segment of a reply: from its label to just before the next label, or to
\* the end, without the separator
SegmentOf(text, n) ==
    LET at(m) == CHOOSE i \in LabelPositions(text) :
                     Cardinality({j \in LabelPositions(text) : j < i}) = m - 1
        last == IF n < Cardinality(LabelPositions(text)) THEN at(n + 1) - 1
                ELSE Len(text)
    IN  Trim(SubSeq(text, at(n), last))

\* the segment expected for one outcome
ExpectedSegment(flagged, result) ==
    LET lang == result.targetLanguage
        label == IF flagged
                 THEN <<IF lang \in DOMAIN flagMap THEN flagMap[lang]
                        ELSE ":globe_with_meridians:", " ">>
                 ELSE <<"<bullet>", " ", "*", lang, "*", ":", " ">>
    IN  label \o (IF result.success /\ result.translatedText /= <<>>
                  THEN result.translatedText ELSE Placeholder)

\* C15: the reply formatTranslationResults builds has exactly one labelled segment
\* per outcome, in the order of the outcomes: the label, then the translated text of
\* an outcome that succeeded with a non-empty text, the placeholder otherwise.
C15_OneSegmentPerOutcome ==
    format.op = "format" =>
        /\ Cardinality(LabelPositions(format.text)) = Len(format.results)
        /\ \A n \in 1..Len(format.results) :
              SegmentOf(format.text, n) = ExpectedSegment(format.flagged, format.results[n])

\* C15 witness: a batch of two outcomes that both failed, formatted by the bot's
\* formatter into a reply of two placeholders
C15_Witness ==
    /\ format.op = "format"
    /\ format.flagged
    /\ Len(format.results) = 2
    /\ \A n \in 1..2 : ~format.results[n].success
    /\ Cardinality({i \in 1..Len(format.text) : format.text[i] = "translation failed"}) = 2

(***************************************************************************)
(* Properties of the handlers' error paths (Spec).                         *)
(***************************************************************************)
Undetermined(r) == runs[r].pc /= "idle" /\ runs[r].sourceLang = "und"

InCatch == {"teamInfo", "sayError"}

\* C17: an exception met while one message is handled (a rejected say) takes its
\* handler into its catch block and from there to a normal return, whether the call
\* made in the catch block succeeds or not: nothing is rethrown. The step leaves every
\* other invocation in flight, and the dedup cache, as they were.
C17_ExceptionsContained ==
    [][\A r \in RunIds :
          /\ runs'[r].outcome /= "unhandled"
          /\ runs[r].pc \in InCatch /\ runs'[r] /= runs[r] =>
                runs'[r].pc = "done" /\ runs'[r].outcome = "failed"
          /\ (runs'[r].pc \in InCatch \/ runs[r].pc \in InCatch) /\ runs'[r] /= runs[r] =>
                /\ cache' = cache
                /\ \A q \in RunIds \ {r} : runs'[q] = runs[q]]_vars

\* C17 witness: one invocation has failed and returned while another one, whose say
\* was still pending, has posted its reply
C17_Witness ==
    \E r, q \in RunIds :
        /\ runs[r].pc = "done" /\ runs[r].outcome = "failed"
        /\ runs[q].pc = "done" /\ runs[q].outcome = "posted" /\ runs[q].replies >= 1
        /\ runs[q].message.channel /= runs[r].message.channel

(***************************************************************************)
(* Properties of the two handlers together (Spec, HandlerSpec).            *)
(***************************************************************************)
\* C18 as stated: of the invocations handling one chat message (one channel and ts),
\* delivered once as a message event and once as an app_mention event, at most one
\* dispatches a translation batch and at most one posts a reply.
C18_OneHandlingPerMessage ==
    \A r, q \in RunIds :
        (/\ runs[r].handler = "message"
         /\ runs[q].handler = "mention"
         /\ runs[r].message.channel = runs[q].message.channel
         /\ runs[r].message.ts = runs[q].message.ts)
          => /\ ~(runs[r].translateCalls > 0 /\ runs[q].translateCalls > 0)
             /\ ~(runs[r].replies > 0 /\ runs[q].replies > 0)

\* C19 as stated: a mention that names custom target languages is translated to
\* those languages (the detected language itself left out), whatever language was
\* detected, and to no other language.
C19_CustomTargetsUsed ==
    \A r \in RunIds :
        (/\ runs[r].handler = "mention"
         /\ Len(runs[r].custom) > 0
         /\ runs[r].sourceLang \notin {NoValue, "und"})
          => runs[r].targets =
                SelectSeq(runs[r].custom, LAMBDA lang : lang /= runs[r].sourceLang)

\* a message event that carries one of the marks of a bot
FromBot(message) ==
    \/ Truthy(message.bot_id)
    \/ Truthy(message.app_id)
    \/ message.subtype = "bot_message"

\* C20: a reply the bot posted, delivered back to the message handler with bot_id,
\* app_id or subtype bot_message, is rejected by the filter: that invocation returns
\* at once, calls no adapter, posts nothing and marks nothing in the cache, so the
\* only replies are those of invocations started by messages that carry no such mark.
C20_EchoRejected ==
    \A r \in RunIds :
        (runs[r].handler = "message" /\ FromBot(runs[r].message))
          => /\ ~runs[r].passed
             /\ runs[r].pc = "done"
             /\ runs[r].detectCalls = 0
             /\ runs[r].translateCalls = 0
             /\ runs[r].replies = 0
             /\ runs[r].message.ts = EchoStamp =>
                   marked[generateKey(runs[r].message.channel, EchoStamp)] < 0

\* C20 witness: a human message was translated and answered, the reply came back
\* as a message event and was dropped without a reply
C20_Witness ==
    \E r, q \in RunIds :
        /\ runs[q].handler = "message" /\ ~FromBot(runs[q].message)
        /\ runs[q].replies > 0
        /\ runs[r].handler = "message" /\ FromBot(runs[r].message)
        /\ runs[r].message.ts = EchoStamp
        /\ runs[r].message.text = ReplyText(q)
        /\ runs[r].pc = "done" /\ runs[r].replies = 0

(***************************************************************************)
(* Properties of the filter as a reader of the cache (DedupSpec).          *)
(***************************************************************************)
\* C30: a call of shouldProcessMessage leaves the answers of the cache as they were:
\* for every key isProcessed answers the same just before and just after the call,
\* at the same clock time; the call marks no key, and the entries still in the map
\* are the ones that were there, unchanged (the call only sweeps expired entries).
C30_FilterLeavesAnswers ==
    [][(lastCall'.op = "shouldProcessMessage" /\ now' = now)
          => /\ \A ch \in Channels, ts \in Stamps :
                   isProcessed(cache', ch, ts, now) = isProcessed(cache, ch, ts, now)
             /\ marked' = marked
             /\ \A k \in DOMAIN cache' : k \in DOMAIN cache /\ cache'[k] = cache[k]]_vars

\* C30 witness: the filter has accepted a message whose key had been marked more
\* than the TTL ago, after its lookup swept that entry out of the map
C30_Witness ==
    /\ lastCall.op = "shouldProcessMessage"
    /\ lastCall.result
    /\ LET key == generateKey(lastCall.message.channel, lastCall.message.ts)
       IN  /\ marked[key] >= 0
           /\ now - marked[key] > TTL_MS
           /\ key \notin DOMAIN cache

(***************************************************************************)
(* Properties of the retry loop (BatchSpec).                               *)
(***************************************************************************)
\* the calls of translateToWithRetry in flight
TranslateCalls == IF batch.impl = "retry" THEN DOMAIN batch.calls ELSE {}

\* the attempts of call i that ended in an exception
ThrownAttempts(i) ==
    {n \in 1..Len(batch.calls[i].history) : AttemptResult(i, n).status = "rejected"}

\* C21 as stated: in both retry wrappers an attempt that ends in a soft failure
\* (success=false, or 'und', without an exception) is the last attempt of its call,
\* whichever attempt it is: the call has returned and no attempt follows it.
C21_SoftFailureEndsLoop ==
    \A i \in RetryCalls :
        \A n \in 1..Len(batch.calls[i].history) :
            SoftFailure(AttemptResult(i, n))
              => /\ n = Len(batch.calls[i].history)
                 /\ batch.calls[i].pc = "settled"

\* C22 as stated: a call of translateToWithRetry that has made its attempts and
\* returns a failure returns the failure of the last attempt it made: the error of
\* its result is the error of that attempt, thrown or soft.
C22_LastFailureReturned ==
    \A i \in TranslateCalls :
        LET call == batch.calls[i]
            last == AttemptResult(i, Len(call.history))
        IN  (/\ call.pc = "settled"
             /\ call.history /= <<>>
             /\ ~call.promise.value.success)
              => call.promise.value.error =
                    IF last.status = "fulfilled" THEN last.value.error ELSE last.reason

\* the places and the number of the delays of every retry call: a delay is being
\* taken only after an attempt that threw and with another attempt to come, none is
\* taken before the first attempt, and every delay taken is followed by an attempt
DelaysBetweenAttempts ==
    \A i \in RetryCalls :
        LET call == batch.calls[i]
        IN  /\ call.history = <<>> => call.delays = <<>>
            /\ Len(call.delays) <= Cardinality(ThrownAttempts(i))
            /\ call.pc = "delay"
                 => /\ Len(call.history) \in ThrownAttempts(i)
                    /\ call.attempt < batch.retryMax
            /\ call.pc = "settled" /\ call.delays /= <<>>
                 => Len(call.delays) < Len(call.history)

\* C23 as stated: the delay taken before the 0-indexed attempt n (n >= 1) is 2^n
\* seconds, and a delay is taken only between a thrown failure and the next attempt.
C23_DelayTwoToTheN ==
    /\ DelaysBetweenAttempts
    /\ \A i \in RetryCalls :
          LET call == batch.calls[i]
              n == call.attempt + 1
          IN  call.pc = "delay" => call.delays[Len(call.delays)] = Pow2(n) * 1000

\* C23 corrected: the delay taken before the 0-indexed attempt n (n >= 1) is 2^(n-1)
\* seconds (1 s before attempt 1, 2 s before attempt 2), and a delay is taken only
\* between a thrown failure and the next attempt, never before the first attempt and
\* never after the final one.
C23_DelayTwoToTheFailedAttempt ==
    /\ DelaysBetweenAttempts
    /\ \A i \in RetryCalls :
          LET call == batch.calls[i]
              n == call.attempt + 1
          IN  call.pc = "delay" => call.delays[Len(call.delays)] = Pow2(n - 1) * 1000

\* C23 witness: a call whose first two attempts threw has waited 1 s and 2 s and
\* has returned after its third and final attempt, with no delay after it
C23_Witness ==
    \E i \in TranslateCalls :
        /\ batch.calls[i].pc = "settled"
        /\ Len(batch.calls[i].history) = 3
        /\ ThrownAttempts(i) = {1, 2, 3}
        /\ batch.calls[i].delays = <<1000, 2000>>

\* C24 as stated: whatever integer retryMax is configured, a call of
\* translateToWithRetry that has returned has made at least one attempt and at most
\* retryMax + 1 attempts.
C24_AtLeastOneAttempt ==
    \A i \in TranslateCalls :
        batch.calls[i].pc = "settled"
          => /\ Len(batch.calls[i].history) >= 1
             /\ Len(batch.calls[i].history) <= batch.retryMax + 1

\* C25 as stated: in every translate implementation a result with success=true
\* carries a text that is not empty and differs from the input.
C25_SuccessIsATranslation ==
    \A i \in Targets :
        (/\ batch.impl \in {"retry", "langchain"}
         /\ batch.calls[i].pc = "settled"
         /\ batch.calls[i].promise.status = "fulfilled"
         /\ batch.calls[i].promise.value.success)
          => /\ batch.calls[i].promise.value.translatedText /= <<>>
             /\ batch.calls[i].promise.value.translatedText /= batch.text

(***************************************************************************)
(* Properties of the parts of splitLongMessage (FormatSpec).               *)
(***************************************************************************)
RECURSIVE WordsFrom(_, _)
\* the maximal non-whitespace runs of s, in order, after the run word already read
WordsFrom(s, word) ==
    IF s = <<>> THEN (IF word = <<>> THEN <<>> ELSE <<word>>)
    ELSE IF Head(s) \in WhiteSpace
    THEN (IF word = <<>> THEN <<>> ELSE <<word>>) \o WordsFrom(Tail(s), <<>>)
    ELSE WordsFrom(Tail(s), Append(word, Head(s)))

\* the words of a text: its maximal runs of non-whitespace characters
WordsOf(s) == WordsFrom(s, <<>>)

RECURSIVE WordsOfParts(_)
\* the words of each part, part after part
WordsOfParts(parts) ==
    IF parts = <<>> THEN <<>> ELSE WordsOf(Head(parts)) \o WordsOfParts(Tail(parts))

\* C26: splitLongMessage never cuts inside a word: the words of the parts, part
\* after part, are exactly the words of the text, so every maximal run of
\* non-whitespace characters is whole inside exactly one part, even a run longer
\* than maxLength.
C26_WordsKeptWhole ==
    format.op = "split" => WordsOfParts(format.parts) = WordsOf(format.text)

\* C26 witness: a text of several words was split into several parts, one of its
\* words longer than maxLength and in a part of its own
C26_Witness ==
    /\ format.op = "split"
    /\ Len(format.parts) >= 2
    /\ Len(WordsOf(format.text)) >= 2
    /\ \E i \in 1..Len(format.parts) :
          /\ Length(format.parts[i]) > format.maxLength
          /\ WordsOf(format.text) /= <<>>
          /\ <<format.parts[i]>> = WordsOf(format.parts[i])

\* C27 as stated: every part splitLongMessage returns is non-empty and has no
\* leading or trailing whitespace, for every input.
C27_PartsTrimmedNonEmpty ==
    format.op = "split" =>
        \A i \in 1..Len(format.parts) :
            /\ format.parts[i] /= <<>>
            /\ Trim(format.parts[i]) = format.parts[i]

(***************************************************************************)
(* Properties of the handlers' dispatch and posting (Spec, HandlerSpec).   *)
(***************************************************************************)
\* invocation r detected a language and filtering it out of its target list left
\* no target
NoTargetsLeft(r) ==
    /\ runs[r].pc \notin {"idle", "detect"}
    /\ runs[r].sourceLang \notin {NoValue, "und"}
    /\ dispatchTargets(runs[r].configured, runs[r].sourceLang) = <<>>

PartFailed(r) ==
    /\ runs[r].parts > 0
    /\ \/ runs[r].pc \in InCatch
       \/ runs[r].pc = "done" /\ runs[r].outcome \in {"failed", "unhandled"}

\* the message of invocation r is marked processed: it was marked, and is answered
\* as processed as long as the mark is not older than the TTL
StaysMarked(r) ==
    LET key == generateKey(runs[r].message.channel, runs[r].message.ts)
    IN  /\ marked[key] >= 0
        /\ Live(key) => isProcessed(cache, runs[r].message.channel, runs[r].message.ts, now)

\* C29 as stated: a reply of k parts is posted by k calls of say, one part after the
\* other, each call made once the previous one completed; when posting a part
\* fails no later part is posted and the message stays marked processed, in both
\* handlers.
C29_PartsPostedInOrder ==
    \A r \in RunIds :
        runs[r].parts > 0
          => /\ runs[r].posted <= runs[r].parts
             /\ runs[r].pc = "say" => runs[r].posted < runs[r].parts
             /\ (runs[r].pc = "done" /\ ~PartFailed(r))
                   => runs[r].posted = runs[r].parts
             /\ PartFailed(r)
                   => /\ runs[r].posted < runs[r].parts
                      /\ StaysMarked(r)

(***************************************************************************)
(* Properties of the dedup entries under the message handler (Spec).       *)
(***************************************************************************)
\* the map holds an entry for key k that has not expired at time t
LiveEntry(c, k, t) == k \in DOMAIN c /\ ~(t - c[k].timestamp > TTL_MS)

\* C31: an entry is never updated after it is created: in every step of the
\* handlers an entry that has not expired stays in the map as it is, timestamp
\* included, and a message-handler run that passes the filter (the only caller of
\* markProcessed) does so for a key that has no unexpired entry.
C31_EntryNeverRefreshed ==
    [][/\ \A k \in DOMAIN cache :
             LiveEntry(cache, k, now) => (k \in DOMAIN cache' /\ cache'[k] = cache[k])
       /\ \A r \in RunIds :
             (runs[r].pc = "idle" /\ runs'[r].handler = "message" /\ runs'[r].passed)
               => ~LiveEntry(cache, generateKey(runs'[r].message.channel,
                                                runs'[r].message.ts), now)]_vars

\* C31 witness: a redelivery of a handled message was skipped within the TTL; the
\* entry, older by now, still carries the time of its creation
C31_Witness ==
    \E r \in MessageRuns :
        /\ runs[r].processedAtFilter /\ ~runs[r].passed /\ runs[r].pc = "done"
        /\ LiveEntry(cache, RunKey(r), now)
        /\ cache[RunKey(r)].timestamp < now
        /\ \E q \in MessageRuns :
              q < r /\ RunKey(q) = RunKey(r) /\ runs[q].passed

\* run r passed the filter and has ended, or is ending, without a reply: the language
\* was undetermined, no target was left, or posting the reply failed
NoReplyRun(r) ==
    /\ runs[r].passed
    /\ runs[r].replies = 0
    /\ \/ runs[r].pc = "done" /\ runs[r].outcome \in {"undetermined", "no targets", "failed"}
       \/ runs[r].pc \in InCatch

\* C32: a message is never re-attempted: a redelivery to the message handler made
\* within the TTL of the mark is skipped (the cache reports it processed, nothing is
\* detected, translated or posted) even when the first run produced no reply.
C32_NoSecondAttempt ==
    \A r1, r2 \in MessageRuns :
        (/\ r1 < r2
         /\ RunKey(r1) = RunKey(r2)
         /\ NoReplyRun(r1)
         /\ runs[r2].liveAtFilter)
          => /\ runs[r2].processedAtFilter
             /\ ~runs[r2].passed
             /\ runs[r2].pc = "done"
             /\ Quiet(r2)

\* C32 witness: posting the reply of the first run failed and its catch block has
\* returned; the message was delivered again within the TTL and skipped
C32_Witness ==
    \E r1, r2 \in MessageRuns :
        /\ r1 < r2 /\ RunKey(r1) = RunKey(r2)
        /\ runs[r1].passed /\ runs[r1].pc = "done" /\ runs[r1].outcome = "failed"
        /\ runs[r1].replies = 0
        /\ runs[r2].liveAtFilter /\ runs[r2].processedAtFilter
        /\ runs[r2].pc = "done" /\ Quiet(r2)
        /\ cache[RunKey(r1)].timestamp < now

(***************************************************************************)
(* Properties of the translate functions as promises (BatchSpec).          *)
(***************************************************************************)
\* the promise the translate function of the batch returned in attempt n of call i
TranslateAttempt(i, n) ==
    LET reply == ModelReply(batch.calls[i].history[n], batch.text, batch.langs[i])
    IN  IF batch.impl = "langchain"
        THEN translateTextPromise(batch.text, batch.langs[i], reply)
        ELSE translateTo(batch.text, batch.langs[i], reply)

\* C33 as stated: translateTo (and translateText) never throws: whatever the adapter
\* did, the promise fulfils, and an adapter exception or a timeout expiry is returned
\* as a result with success=false, an empty text and the error's message.
C33_TranslateNeverThrows ==
    \A i \in Targets :
        \A n \in 1..Len(batch.calls[i].history) :
            LET reply == ModelReply(batch.calls[i].history[n], batch.text, batch.langs[i])
                p == TranslateAttempt(i, n)
            IN  /\ p.status = "fulfilled"
                /\ reply.threw
                     => /\ ~p.value.success
                        /\ p.value.translatedText = <<>>
                        /\ p.value.error = reply.message

(***************************************************************************)
(* Properties of the stored entries (DedupSpec).                           *)
(***************************************************************************)
\* C34: every stored entry has processed = true, so for every key isProcessed
\* answers true exactly when the map holds an entry for the key that has not
\* expired.
C34_StoredMeansProcessed ==
    /\ \A k \in DOMAIN cache : cache[k].processed
    /\ \A ch \in Channels, ts \in Stamps :
          isProcessed(cache, ch, ts, now) <=> LiveEntry(cache, generateKey(ch, ts), now)

\* C34 witness: isProcessed has answered true for a key whose entry is stored and
\* unexpired, while another key, marked earlier, has expired and been swept
C34_Witness ==
    /\ lastCall.op = "isProcessed"
    /\ lastCall.result
    /\ LiveEntry(cache, generateKey(lastCall.message.channel, lastCall.message.ts), now)
    /\ \E k \in Keys : marked[k] >= 0 /\ k \notin DOMAIN cache

(***************************************************************************)
(* Properties of the metrics records (HandlerSpec).                        *)
(***************************************************************************)
\* the records invocation r pushed to the collector
RecordsOf(r) == {runs[r].metrics[i] : i \in 1..Len(runs[r].metrics)}

\* C35 as stated: every metrics record of a batch, written on the success path or
\* on the failure path, has successfulTranslations + failedTranslations equal to
\* the number of target languages of the batch.
C35_CountsAddUp ==
    \A r \in RunIds :
        \A m \in RecordsOf(r) :
            m.successfulTranslations + m.failedTranslations = Len(runs[r].targets)

\* C36 as stated: a batch is recorded with success = true only if at least one of
\* its translations succeeded, and a batch whose every target failed counts as a
\* failure in the success rate.
C36_SuccessNeedsATranslation ==
    \A r \in RunIds :
        /\ \A m \in RecordsOf(r) :
              m.success => \E i \in 1..Len(runs[r].results) : runs[r].results[i].success
        /\ (/\ runs[r].metrics /= <<>>
            /\ \A i \in 1..Len(runs[r].results) : ~runs[r].results[i].success)
              => successRate(runs[r].metrics) = <<0, 1>>

(***************************************************************************)
(* Properties of MemoryStorageAdapter (StorageSpec).                       *)
(***************************************************************************)
\* C37 as stated: after any sequence of set, get, delete and clock advances,
\* exists(key) answers true exactly when get(key) would answer a non-null value; an
\* entry whose TTL has expired is reported absent by both.
C37_ExistsAgreesWithGet ==
    /\ \A key \in StorageKeys :
          exists(store.items, key) <=> ~get(store.items, key, now).isNull
    /\ store.op = "exists" => (store.found <=> ~store.isNull)

(***************************************************************************)
(* The two drafts of the eligibility filter (DedupSpec).                   *)
(***************************************************************************)
\* C38: every message shouldIgnoreMessage rejects is rejected by
\* shouldProcessMessage too, whatever the dedup cache holds: for every message and
\* the cache of every reachable state, and for the call just made.
C38_IgnoredIsNotProcessed ==
    /\ \A m \in Messages :
          shouldIgnoreMessage(m) => ~shouldProcessMessage(m, cache, now).shouldProcess
    /\ lastCall.op = "shouldProcessMessage"
          => (shouldIgnoreMessage(lastCall.message) => ~lastCall.result)

\* C38 witness: shouldProcessMessage has rejected, as an ignore command, a message
\* from a human that shouldIgnoreMessage rejects as well, the cache holding an entry
\* for another key
C38_Witness ==
    /\ lastCall.op = "shouldProcessMessage"
    /\ shouldIgnoreMessage(lastCall.message)
    /\ ~shouldIgnoreForBotLoop(lastCall.message)
    /\ ~lastCall.result
    /\ lastCall.reason = ReasonIgnore
    /\ DOMAIN cache /= {}

(***************************************************************************)
(* Termination of the message handler (LiveSpec).                          *)
(***************************************************************************)
\* the handler of run r has logged its failure: the catch block logs before it
\* awaits client.team.info()
FailureLogged(r) ==
    runs[r].pc = "teamInfo" \/ (runs[r].pc = "done" /\ runs[r].outcome = "failed")

\* run r has reached a terminal outcome: every part posted, a logged skip, or a
\* logged failure
Terminal(r) ==
    \/ /\ runs[r].pc = "done"
       /\ runs[r].outcome \in {"posted", "undetermined", "no targets"}
       /\ runs[r].outcome = "posted" => (runs[r].parts > 0 /\ runs[r].posted = runs[r].parts)
    \/ FailureLogged(r)

\* every per-target call of the batch of run r has settled and the results the
\* handler holds are those of the calls, one per target
BatchComplete(r) ==
    /\ batch.phase = "done"
    /\ batch.langs = runs[r].targets
    /\ \A i \in 1..Len(batch.langs) : batch.calls[i].pc = "settled"
    /\ runs[r].results = batch.results
    /\ Len(runs[r].results) = Len(runs[r].targets)

\* C39: when every adapter call and every say settles, a message that passed the
\* filter eventually reaches a terminal outcome (all parts posted, a logged skip for
\* an undetermined language or an empty target set, or a logged failure); the
\* outcome, once reached, never changes; and the handler posts nothing before every
\* per-target call has settled, the reply carrying a result for every target.
C39_ReachesOneOutcome ==
    /\ (runs[1].handler = "message" /\ runs[1].passed) ~> Terminal(1)
    /\ [][runs[1].outcome /= NoValue => runs'[1].outcome = runs[1].outcome]_vars
    /\ [][(runs[1].outcome \in {"posted", "undetermined", "no targets"}
            \/ FailureLogged(1)) => runs'[1].replies = runs[1].replies]_vars
    /\ [](runs[1].pc \in {"say", "teamInfo"} \/ runs[1].replies > 0
            => BatchComplete(1))
    /\ [](runs[1].passed /\ runs[1].pc = "done"
            => runs[1].outcome \in {"posted", "undetermined", "no targets", "failed"})

\* C39 witness: a two-target batch whose second call settled first and whose first
\* call failed was joined, and both parts of its reply were posted
C39_Witness ==
    /\ runs[1].passed
    /\ runs[1].pc = "done" /\ runs[1].outcome = "posted"
    /\ runs[1].parts = 2 /\ runs[1].posted = 2
    /\ Len(runs[1].targets) = 2
    /\ batch.calls[1].promise.rank = 2
    /\ ~runs[1].results[1].success /\ runs[1].results[2].success

=============================================================================
